---- MODULE Spec2Model ----
(***************************************************************************)
(* Routing, spanning-tree and allocation engine of the Smart City          *)
(* transportation project.                                                 *)
(*                                                                         *)
(* Numbers.  The program computes in floating point; the model computes    *)
(* the same quantities exactly, in integers, in fixed units:               *)
(*   - a traffic factor f is held as 4*f (FactorScale), so the clamp       *)
(*     [0.5, 1.5] is [2, 6] and the neutral factor 1.0 is 4; capacities    *)
(*     are drawn from values that divide 4*flow, so the quotient is exact  *)
(*     wherever it lies inside the clamp;                                  *)
(*   - a travel time of t minutes is held as 120000*t (TimeScale):         *)
(*     (d/1000)/(speed/f)*60 = d * (4f) * (1800/speed) / 120000;           *)
(*   - node ids are the strings "1","2",...; the model uses 1,2,... whose  *)
(*     order is the order of those strings, and 0 for None.                *)
(* Floating-point rounding is not modelled.                                *)
(***************************************************************************)
EXTENDS Integers, Sequences, FiniteSets, TLC

VARIABLES G, traffic_data, tables, memo, queried, request, response, calls

vars == <<G, traffic_data, tables, memo, queried, request, response, calls>>

-----------------------------------------------------------------------------
(* Bounds of the model *)

NumNodes == 3
MaxEdges == 2
MaxFlow == 8

(* Program constants *)

INF == 2000000000
None == 0
NoAttr == -1
DefaultCapacity == 2000
DefaultDistance == 1000
FactorScale == 4
FactorLow == 2
FactorHigh == 6
PlannerMaxDistance == 50000

Nodes == 1..NumNodes
NoPeriod == ""
Periods == {"morning", "afternoon", "evening", "night"}
Modes == {"car", "bus", "metro", "emergency"}
RoadTypes == {"existing", "potential", "bus", "metro", "virtual_connection", "virtual_link"}

Min(a, b) == IF a < b THEN a ELSE b
Max(a, b) == IF a > b THEN a ELSE b

RECURSIVE SeqSum(_)
SeqSum(s) == IF s = <<>> THEN 0 ELSE Head(s) + SeqSum(Tail(s))

RECURSIVE Reverse(_)
Reverse(s) == IF s = <<>> THEN <<>> ELSE Append(Reverse(Tail(s)), Head(s))

(* The elements of S as a sequence, in ascending order of the (distinct) keys k[x]. *)
RECURSIVE OrderBy(_, _)
OrderBy(S, k) ==
    IF S = {} THEN <<>>
    ELSE LET x == CHOOSE y \in S : \A z \in S : k[y] <= k[z]
         IN <<x>> \o OrderBy(S \ {x}, k)

-----------------------------------------------------------------------------
(* The multigraph.  G.edges is the sequence of add_edge calls, in order;   *)
(* an edge is [u, v, road_type, distance, capacity, cost].  G.pos maps a   *)
(* node to its 'pos' attribute, <<x, y>> in hundredths of a degree, or to  *)
(* <<>> when the node has none.                                            *)

Other(e, n) == IF e.u = n THEN e.v ELSE e.u
Incident(e, n) == e.u = n \/ e.v = n
SamePair(e, f) == {e.u, e.v} = {f.u, f.v}

(* networkx numbers the parallel edges of a pair 0, 1, 2, ... *)
EdgeKey(g, i) == Cardinality({j \in 1..(i - 1) : SamePair(g.edges[j], g.edges[i])})

(* Index of the edge between n and m with the given key, 0 if none. *)
EdgeAt(g, n, m, key) ==
    LET S == {i \in 1..Len(g.edges) : {g.edges[i].u, g.edges[i].v} = {n, m} /\ EdgeKey(g, i) = key}
    IN IF S = {} THEN 0 ELSE CHOOSE i \in S : TRUE

HasEdge(g, n, m) == \E i \in 1..Len(g.edges) : {g.edges[i].u, g.edges[i].v} = {n, m}

(* G[n].items() followed by edges.items(): the edges at n, grouped by      *)
(* neighbour in the order the neighbours were first joined to n, keys      *)
(* ascending within a neighbour.                                           *)
Adjacency(g, n) ==
    LET I == {i \in 1..Len(g.edges) : Incident(g.edges[i], n)}
        first(i) == CHOOSE j \in I : /\ Other(g.edges[j], n) = Other(g.edges[i], n)
                                     /\ \A l \in I : Other(g.edges[l], n) = Other(g.edges[i], n) => j <= l
        k == [i \in I |-> first(i) * (Len(g.edges) + 1) + i]
    IN OrderBy(I, k)

EdgeDistance(e) == IF e.distance = NoAttr THEN DefaultDistance ELSE e.distance

-----------------------------------------------------------------------------
(* Edge weight model *)

allowed_road_types(mode) ==
    CASE mode = "car" -> {"existing", "potential", "bus", "virtual_connection", "virtual_link"}
      [] mode = "bus" -> {"bus"}
      [] mode = "metro" -> {"metro"}
      [] mode = "emergency" -> {"existing", "potential", "virtual_connection", "virtual_link"}

(* 1800 / base_speed: car 120, bus 100, metro 90, emergency 100 km/h *)
base_speed_inverse(mode) ==
    CASE mode = "car" -> 15
      [] mode = "bus" -> 18
      [] mode = "metro" -> 20
      [] mode = "emergency" -> 18

(* traffic_data.get(period, {}).get((str(u), str(v)), capacity) *)
traffic_lookup(td, period, u, v, capacity) ==
    IF <<period, u, v>> \in DOMAIN td THEN td[<<period, u, v>>] ELSE capacity

(* traffic_factor without the upper cap *)
traffic_factor_uncapped(traffic_flow, capacity) ==
    Max(FactorLow, IF capacity > 0 THEN (FactorScale * traffic_flow) \div capacity ELSE FactorScale)

(* traffic_flow / capacity if capacity > 0 else 1.0, capped between 0.5 and 1.5 *)
traffic_factor(traffic_flow, capacity) ==
    Max(FactorLow, Min(IF capacity > 0 THEN (FactorScale * traffic_flow) \div capacity
                       ELSE FactorScale, FactorHigh))

(* The flow get_edge_weight reads: None (NoAttr) when neither period is given. *)
edge_traffic_flow(td, u, v, capacity, time_period, emergency_time_period) ==
    IF time_period # NoPeriod THEN traffic_lookup(td, time_period, u, v, capacity)
    ELSE IF emergency_time_period # NoPeriod
         THEN traffic_lookup(td, emergency_time_period, u, v, capacity)
         ELSE NoAttr

EdgeCapacity(e) == IF e.capacity = NoAttr THEN DefaultCapacity ELSE e.capacity

(* the base speed is never adjusted for traffic *)
edge_factor_unadjusted(td, e, u, v, time_period, emergency_time_period, transport_mode) == NoAttr

(* The factor that divides the base speed, NoAttr when the speed is the base speed. *)
edge_factor(td, e, u, v, time_period, emergency_time_period, transport_mode) ==
    LET capacity == EdgeCapacity(e)
        traffic_flow == edge_traffic_flow(td, u, v, capacity, time_period, emergency_time_period)
    IN IF transport_mode \in {"car", "bus", "emergency"} /\ traffic_flow # NoAttr
       THEN traffic_factor(traffic_flow, capacity)
       ELSE NoAttr

(* the travel time of the edge, whatever its road type *)
get_edge_weight_any_type(td, e, u, v, time_period, emergency_time_period, base_distance, transport_mode) ==
    LET f == edge_factor(td, e, u, v, time_period, emergency_time_period, transport_mode)
    IN base_distance * (IF f = NoAttr THEN FactorScale ELSE f) * base_speed_inverse(transport_mode)

get_edge_weight(td, e, u, v, time_period, emergency_time_period, base_distance, transport_mode) ==
    IF e.road_type \notin allowed_road_types(transport_mode) THEN INF
    ELSE LET f == edge_factor(td, e, u, v, time_period, emergency_time_period, transport_mode)
         IN base_distance * (IF f = NoAttr THEN FactorScale ELSE f) * base_speed_inverse(transport_mode)

-----------------------------------------------------------------------------
(* Dijkstra with traffic.  q = [start, end, time_period,                   *)
(* emergency_time_period, transport_mode]; the loop state is               *)
(* [distances, previous, edge_keys, pq, done].                             *)

(* heapq.heappop on tuples: the least tuple in lexicographic order. *)
HeapMin(pq) ==
    CHOOSE t \in pq : \A o \in pq : t[1] < o[1] \/ (t[1] = o[1] /\ t[2] <= o[2])

dijkstra_init(start) ==
    [distances |-> [n \in Nodes |-> IF n = start THEN 0 ELSE INF],
     previous |-> [n \in Nodes |-> None],
     edge_keys |-> [n \in Nodes |-> [m \in Nodes |-> NoAttr]],
     pq |-> {<<0, start>>},
     done |-> FALSE]

(* a relaxation that labels a neighbor only while it has no label *)
dijkstra_relax_unlabelled_only(g, td, q, st, current_node, i) ==
    LET e == g.edges[i]
        neighbor == Other(e, current_node)
        weight == get_edge_weight(td, e, current_node, neighbor, q.time_period,
                                  q.emergency_time_period, EdgeDistance(e), q.transport_mode)
        distance == st.distances[current_node] + weight
    IN IF weight = INF THEN st
       ELSE IF st.distances[neighbor] = INF
            THEN [st EXCEPT !.distances[neighbor] = distance,
                            !.previous[neighbor] = current_node,
                            !.edge_keys[neighbor][current_node] = EdgeKey(g, i),
                            !.pq = @ \cup {<<distance, neighbor>>}]
            ELSE st

dijkstra_relax(g, td, q, st, current_node, i) ==
    LET e == g.edges[i]
        neighbor == Other(e, current_node)
        weight == get_edge_weight(td, e, current_node, neighbor, q.time_period,
                                  q.emergency_time_period, EdgeDistance(e), q.transport_mode)
        distance == st.distances[current_node] + weight
    IN IF weight = INF THEN st
       ELSE IF distance < st.distances[neighbor]
            THEN [st EXCEPT !.distances[neighbor] = distance,
                            !.previous[neighbor] = current_node,
                            !.edge_keys[neighbor][current_node] = EdgeKey(g, i),
                            !.pq = @ \cup {<<distance, neighbor>>}]
            ELSE st

RECURSIVE dijkstra_relax_all(_, _, _, _, _, _)
dijkstra_relax_all(g, td, q, st, current_node, adj) ==
    IF adj = <<>> THEN st
    ELSE dijkstra_relax_all(g, td, q, dijkstra_relax(g, td, q, st, current_node, Head(adj)),
                            current_node, Tail(adj))

(* One iteration of "while pq". *)
dijkstra_step(g, td, q, st) ==
    IF st.pq = {} THEN [st EXCEPT !.done = TRUE]
    ELSE LET top == HeapMin(st.pq)
             st1 == [st EXCEPT !.pq = @ \ {top}]
         IN IF top[2] = q.end THEN [st1 EXCEPT !.done = TRUE]
            ELSE IF top[1] > st1.distances[top[2]] THEN st1
            ELSE dijkstra_relax_all(g, td, q, st1, top[2], Adjacency(g, top[2]))

RECURSIVE dijkstra_loop(_, _, _, _)
dijkstra_loop(g, td, q, st) ==
    IF st.done THEN st ELSE dijkstra_loop(g, td, q, dijkstra_step(g, td, q, st))

(* The walk over previous without the final path.reverse(). *)
RECURSIVE reconstruct_unreversed(_, _, _, _, _, _, _)
reconstruct_unreversed(g, td, q, st, current, acc, fuel) ==
    IF current = None THEN acc
    ELSE IF fuel = 0 THEN [acc EXCEPT !.looped = TRUE]
    ELSE LET next_node == st.previous[current]
         IN IF next_node = None
            THEN [acc EXCEPT !.path = @ \o <<current>>]
            ELSE LET e == g.edges[EdgeAt(g, current, next_node, st.edge_keys[current][next_node])]
                     base_distance == EdgeDistance(e)
                     weight == get_edge_weight(td, e, current, next_node, q.time_period,
                                               q.emergency_time_period, base_distance, q.transport_mode)
                 IN reconstruct_unreversed(g, td, q, st, next_node,
                                           [acc EXCEPT !.path = @ \o <<current>>,
                                                       !.total_travel_time = @ + weight,
                                                       !.total_distance = @ + base_distance],
                                           fuel - 1)

(* The walk over previous: visits end, previous[end], ... and weighs each  *)
(* edge as (current, next_node), the later node first.  fuel bounds the    *)
(* walk; a walk that uses it up has met a cycle of previous pointers.      *)
RECURSIVE reconstruct(_, _, _, _, _, _, _)
reconstruct(g, td, q, st, current, acc, fuel) ==
    IF current = None THEN acc
    ELSE IF fuel = 0 THEN [acc EXCEPT !.looped = TRUE]
    ELSE LET next_node == st.previous[current]
         IN IF next_node = None
            THEN [acc EXCEPT !.path = <<current>> \o @]
            ELSE LET e == g.edges[EdgeAt(g, current, next_node, st.edge_keys[current][next_node])]
                     base_distance == EdgeDistance(e)
                     weight == get_edge_weight(td, e, current, next_node, q.time_period,
                                               q.emergency_time_period, base_distance, q.transport_mode)
                 IN reconstruct(g, td, q, st, next_node,
                                [acc EXCEPT !.path = <<current>> \o @,
                                            !.total_travel_time = @ + weight,
                                            !.total_distance = @ + base_distance],
                                fuel - 1)

EmptyResult == [path |-> <<>>, total_distance |-> 0, total_travel_time |-> 0, looped |-> FALSE]

(* the walk over previous is made whether or not end was reached *)
search_result_unguarded(g, td, q, st) ==
    LET r == reconstruct(g, td, q, st, q.end, EmptyResult, NumNodes + 1)
    IN [path |-> r.path, total_distance |-> r.total_distance,
        total_travel_time |-> r.total_travel_time, looped |-> r.looped,
        edge_keys |-> st.edge_keys, distances |-> st.distances, previous |-> st.previous]

search_result(g, td, q, st) ==
    LET r == IF st.previous[q.end] # None \/ q.end = q.start
             THEN reconstruct(g, td, q, st, q.end, EmptyResult, NumNodes + 1)
             ELSE EmptyResult
    IN [path |-> r.path, total_distance |-> r.total_distance,
        total_travel_time |-> r.total_travel_time, looped |-> r.looped,
        edge_keys |-> st.edge_keys, distances |-> st.distances, previous |-> st.previous]

dijkstra_with_traffic(g, td, start, end, time_period, emergency_time_period, transport_mode) ==
    LET q == [start |-> start, end |-> end, time_period |-> time_period,
              emergency_time_period |-> emergency_time_period, transport_mode |-> transport_mode]
    IN search_result(g, td, q, dijkstra_loop(g, td, q, dijkstra_init(start)))

-----------------------------------------------------------------------------
(* A* for emergency routing.  The module has its own copy of               *)
(* get_edge_weight, the same text as Dijkstra's.                           *)

ISqrt(n) == CHOOSE r \in 0..n : r * r <= n /\ n < (r + 1) * (r + 1)

HasPos(g, n) == g.pos[n] # <<>>

(* an estimate that is large for every node but the goal, positions or not *)
heuristic_unreached(g, node, goal) == IF node = goal THEN 0 ELSE 10000000

(* sqrt(dx^2 + dy^2) metres with dx = 1110*(x2-x1), dy = 1110*cos(30)*(y2-y1)  *)
(* is 555*sqrt(4*(x2-x1)^2 + 3*(y2-y1)^2); at 100 km/h a metre is 72 units of  *)
(* time.  Positions are drawn so that the root is exact.                       *)
heuristic(g, node, goal) ==
    IF HasPos(g, node) /\ HasPos(g, goal)
    THEN LET dx == g.pos[goal][1] - g.pos[node][1]
             dy == g.pos[goal][2] - g.pos[node][2]
         IN 39960 * ISqrt(4 * dx * dx + 3 * dy * dy)
    ELSE 0

(* Least (f, g, node) tuple. *)
HeapMin3(queue) ==
    CHOOSE t \in queue : \A o \in queue :
        \/ t[1] < o[1]
        \/ (t[1] = o[1] /\ t[2] < o[2])
        \/ (t[1] = o[1] /\ t[2] = o[2] /\ t[3] <= o[3])

a_star_init(g, start, end) ==
    [g_scores |-> [n \in Nodes |-> IF n = start THEN 0 ELSE INF],
     f_scores |-> [n \in Nodes |-> IF n = start THEN heuristic(g, start, end) ELSE INF],
     previous |-> [n \in Nodes |-> None],
     edge_keys |-> [n \in Nodes |-> [m \in Nodes |-> NoAttr]],
     queue |-> {<<0, 0, start>>},
     done |-> FALSE]

(* a relaxation that also takes a score equal to the neighbor's *)
a_star_relax_or_equal(g, td, end, period, st, current_node, i) ==
    LET e == g.edges[i]
        neighbor == Other(e, current_node)
        weight == get_edge_weight(td, e, current_node, neighbor, NoPeriod, period,
                                  EdgeDistance(e), "emergency")
        tentative_g_score == st.g_scores[current_node] + weight
    IN IF weight = INF THEN st
       ELSE IF tentative_g_score <= st.g_scores[neighbor]
            THEN LET f == tentative_g_score + heuristic(g, neighbor, end)
                 IN [st EXCEPT !.g_scores[neighbor] = tentative_g_score,
                               !.f_scores[neighbor] = f,
                               !.previous[neighbor] = current_node,
                               !.edge_keys[neighbor][current_node] = EdgeKey(g, i),
                               !.queue = @ \cup {<<f, tentative_g_score, neighbor>>}]
            ELSE st

a_star_relax(g, td, end, period, st, current_node, i) ==
    LET e == g.edges[i]
        neighbor == Other(e, current_node)
        weight == get_edge_weight(td, e, current_node, neighbor, NoPeriod, period,
                                  EdgeDistance(e), "emergency")
        tentative_g_score == st.g_scores[current_node] + weight
    IN IF weight = INF THEN st
       ELSE IF tentative_g_score < st.g_scores[neighbor]
            THEN LET f == tentative_g_score + heuristic(g, neighbor, end)
                 IN [st EXCEPT !.g_scores[neighbor] = tentative_g_score,
                               !.f_scores[neighbor] = f,
                               !.previous[neighbor] = current_node,
                               !.edge_keys[neighbor][current_node] = EdgeKey(g, i),
                               !.queue = @ \cup {<<f, tentative_g_score, neighbor>>}]
            ELSE st

RECURSIVE a_star_relax_all(_, _, _, _, _, _, _)
a_star_relax_all(g, td, end, period, st, current_node, adj) ==
    IF adj = <<>> THEN st
    ELSE a_star_relax_all(g, td, end, period,
                          a_star_relax(g, td, end, period, st, current_node, Head(adj)),
                          current_node, Tail(adj))

(* One iteration of "while queue": no stale-entry test, no closed set. *)
a_star_step(g, td, end, period, st) ==
    IF st.queue = {} THEN [st EXCEPT !.done = TRUE]
    ELSE LET top == HeapMin3(st.queue)
             st1 == [st EXCEPT !.queue = @ \ {top}]
         IN IF top[3] = end THEN [st1 EXCEPT !.done = TRUE]
            ELSE a_star_relax_all(g, td, end, period, st1, top[3], Adjacency(g, top[3]))

RECURSIVE a_star_loop(_, _, _, _, _)
a_star_loop(g, td, end, period, st) ==
    IF st.done THEN st ELSE a_star_loop(g, td, end, period, a_star_step(g, td, end, period, st))

a_star_emergency_routing(g, td, start, end, emergency_time_period) ==
    LET q == [start |-> start, end |-> end, time_period |-> NoPeriod,
              emergency_time_period |-> emergency_time_period, transport_mode |-> "emergency"]
        st == a_star_loop(g, td, end, emergency_time_period, a_star_init(g, start, end))
    IN search_result(g, td, q, [previous |-> st.previous, edge_keys |-> st.edge_keys,
                                distances |-> st.g_scores])

-----------------------------------------------------------------------------
(* Delay an emergency vehicle imposes on a car path, in hundredths of a metre. *)

PathEdges(path) == [i \in 1..(Len(path) - 1) |-> <<path[i], path[i + 1]>>]

(* The first edge of G[u][v], keys ascending, among those in the set S of edge indices; 0 if none. *)
FirstEdgeAmong(g, u, v, S) ==
    LET T == {i \in S : {g.edges[i].u, g.edges[i].v} = {u, v}}
    IN IF T = {} THEN 0 ELSE CHOOSE i \in T : \A j \in T : i <= j

simulate_emergency_delay(g, car_path, emergency_path) ==
    LET car == PathEdges(car_path)
        em == PathEdges(emergency_path)
        common(i) == \E j \in 1..Len(em) : car[i] = em[j] \/ car[i] = <<em[j][2], em[j][1]>>
        RoadOk == {i \in 1..Len(g.edges) :
                      g.edges[i].road_type \in {"existing", "potential", "virtual_connection", "virtual_link"}}
        HasDistance == {i \in 1..Len(g.edges) : g.edges[i].distance # NoAttr}
        share(i) == LET k == FirstEdgeAmong(g, car[i][1], car[i][2], RoadOk)
                    IN IF common(i) /\ k # 0 THEN EdgeDistance(g.edges[k]) * 20 ELSE 0
        whole(i) == LET k == FirstEdgeAmong(g, car[i][1], car[i][2], HasDistance)
                    IN IF k # 0 THEN g.edges[k].distance ELSE 0
        delay == SeqSum([i \in 1..Len(car) |-> share(i)])
    IN [path |-> car_path,
        delay |-> IF delay = 0 THEN SeqSum([i \in 1..Len(car) |-> whole(i)]) * 3 ELSE delay]

-----------------------------------------------------------------------------
(* Memoized path planning.  The variable "key" of the function first holds *)
(* the query tuple and is then reused as the loop variable over edge keys  *)
(* and in the reconstruction; memo[key] is written with the value it holds *)
(* at the end.  traversed counts the edges the search loop looks at.       *)

QueryKey(start, end, time_period) ==
    [kind |-> "query", start |-> start, end |-> end, time_period |-> time_period, edge_key |-> NoAttr]

EdgeKeyValue(k) ==
    [kind |-> "edge_key", start |-> None, end |-> None, time_period |-> NoPeriod, edge_key |-> k]

planner_traffic_factor(traffic_flow, capacity) ==
    Max(FactorLow, Min(IF capacity > 0 THEN (FactorScale * traffic_flow) \div capacity
                       ELSE FactorScale, FactorHigh))

(* Weight of an edge for a car, 120 km/h, as the planner computes it in both places. *)
planner_weight(td, e, u, v, time_period) ==
    LET capacity == EdgeCapacity(e)
        traffic_flow == traffic_lookup(td, time_period, u, v, capacity)
    IN EdgeDistance(e) * planner_traffic_factor(traffic_flow, capacity) * 15

planner_init(start, key) ==
    [distances |-> [n \in Nodes |-> IF n = start THEN 0 ELSE INF],
     previous |-> [n \in Nodes |-> None],
     edge_keys |-> [n \in Nodes |-> [m \in Nodes |-> NoAttr]],
     pq |-> {<<0, start>>},
     done |-> FALSE,
     key |-> key,
     traversed |-> 0]

planner_relax(g, td, time_period, st, current_node, i) ==
    LET e == g.edges[i]
        neighbor == Other(e, current_node)
        st1 == [st EXCEPT !.key = EdgeKeyValue(EdgeKey(g, i)), !.traversed = @ + 1]
        weight == planner_weight(td, e, current_node, neighbor, time_period)
        distance == st.distances[current_node] + weight
    IN IF e.road_type \notin {"existing", "potential", "virtual_connection", "virtual_link"} THEN st1
       ELSE IF EdgeDistance(e) > PlannerMaxDistance THEN st1
       ELSE IF distance < st.distances[neighbor]
            THEN [st1 EXCEPT !.distances[neighbor] = distance,
                             !.previous[neighbor] = current_node,
                             !.edge_keys[neighbor][current_node] = EdgeKey(g, i),
                             !.pq = @ \cup {<<distance, neighbor>>}]
            ELSE st1

RECURSIVE planner_relax_all(_, _, _, _, _, _)
planner_relax_all(g, td, time_period, st, current_node, adj) ==
    IF adj = <<>> THEN st
    ELSE planner_relax_all(g, td, time_period,
                           planner_relax(g, td, time_period, st, current_node, Head(adj)),
                           current_node, Tail(adj))

planner_step(g, td, end, time_period, st) ==
    IF st.pq = {} THEN [st EXCEPT !.done = TRUE]
    ELSE LET top == HeapMin(st.pq)
             st1 == [st EXCEPT !.pq = @ \ {top}]
         IN IF top[2] = end THEN [st1 EXCEPT !.done = TRUE]
            ELSE IF top[1] > st1.distances[top[2]] THEN st1
            ELSE planner_relax_all(g, td, time_period, st1, top[2], Adjacency(g, top[2]))

RECURSIVE planner_loop(_, _, _, _, _)
planner_loop(g, td, end, time_period, st) ==
    IF st.done THEN st ELSE planner_loop(g, td, end, time_period, planner_step(g, td, end, time_period, st))

(* acc = [path, total_weight, key, looped] *)
RECURSIVE planner_reconstruct(_, _, _, _, _, _, _)
planner_reconstruct(g, td, time_period, st, current, acc, fuel) ==
    IF current = None THEN acc
    ELSE IF fuel = 0 THEN [acc EXCEPT !.looped = TRUE]
    ELSE LET next_node == st.previous[current]
         IN IF next_node = None
            THEN [acc EXCEPT !.path = <<current>> \o @]
            ELSE LET k == st.edge_keys[current][next_node]
                     e == g.edges[EdgeAt(g, current, next_node, k)]
                 IN planner_reconstruct(g, td, time_period, st, next_node,
                        [acc EXCEPT !.path = <<current>> \o @,
                                    !.total_weight = @ + planner_weight(td, e, current, next_node, time_period),
                                    !.key = EdgeKeyValue(k)],
                        fuel - 1)

(* memo[key] = value *)
DictSet(d, key, value) == [k \in DOMAIN d \cup {key} |-> IF k = key THEN value ELSE d[k]]

(* The key under which the result is stored. *)
planner_store_key(found) == found.key

memoized_path_planning(g, td, start, end, time_period, m) ==
    LET key == QueryKey(start, end, time_period)
    IN IF key \in DOMAIN m
       THEN [path |-> m[key].path, weight |-> m[key].weight, memo |-> m,
             traversed |-> 0, hit |-> TRUE, looped |-> FALSE,
             distances |-> <<>>, previous |-> <<>>, edge_keys |-> <<>>]
       ELSE LET st == planner_loop(g, td, end, time_period, planner_init(start, key))
                acc0 == [path |-> <<>>, total_weight |-> 0, key |-> st.key, looped |-> FALSE]
                found == IF st.previous[end] # None \/ end = start
                         THEN planner_reconstruct(g, td, time_period, st, end, acc0, NumNodes + 1)
                         ELSE acc0
            IN [path |-> found.path, weight |-> found.total_weight,
                memo |-> DictSet(m, planner_store_key(found),
                                 [path |-> found.path, weight |-> found.total_weight]),
                traversed |-> st.traversed, hit |-> FALSE, looped |-> found.looped,
                distances |-> st.distances, previous |-> st.previous, edge_keys |-> st.edge_keys]

-----------------------------------------------------------------------------
(* The "Simulate Route" handler of the home page.  Distances of the        *)
(* response are in hundredths of a metre.                                  *)

bus_stops(g) ==
    {n \in Nodes : \E i \in 1..Len(g.edges) : g.edges[i].road_type = "bus" /\ Incident(g.edges[i], n)}

metro_stations(g) ==
    {n \in Nodes : \E i \in 1..Len(g.edges) : g.edges[i].road_type = "metro" /\ Incident(g.edges[i], n)}

get_available_places(g, transport_mode) ==
    CASE transport_mode \in {"car", "emergency"} -> Nodes
      [] transport_mode = "bus" -> bus_stops(g)
      [] transport_mode = "metro" -> metro_stations(g)

Shown(status, searches, path, total_distance, travel_time, emergency_path, delay) ==
    [op |-> "simulate_route", status |-> status, searches |-> searches, path |-> path,
     total_distance |-> total_distance, travel_time |-> travel_time,
     emergency_path |-> emergency_path, delay |-> delay]

(* the handler without its test for equal end points *)
same_point_unchecked(start_node_id, end_node_id) == FALSE

(* if start_node_id == end_node_id: st.error(...) *)
same_point(start_node_id, end_node_id) == start_node_id = end_node_id

simulate_route(g, td, transport_mode, start_node_id, end_node_id, time_period, simulate_emergency) ==
    IF get_available_places(g, transport_mode) = {}
    THEN Shown("no_places", <<>>, <<>>, 0, 0, <<>>, 0)
    ELSE IF ~(start_node_id \in Nodes /\ end_node_id \in Nodes /\ time_period # NoPeriod)
    THEN Shown("ignored", <<>>, <<>>, 0, 0, <<>>, 0)
    ELSE IF same_point(start_node_id, end_node_id)
    THEN Shown("same_point", <<>>, <<>>, 0, 0, <<>>, 0)
    ELSE IF transport_mode = "emergency"
            /\ ~(start_node_id \in get_available_places(g, "emergency")
                 \/ end_node_id \in get_available_places(g, "emergency"))
    THEN Shown("no_hospital", <<>>, <<>>, 0, 0, <<>>, 0)
    ELSE LET algo_name == IF transport_mode = "emergency" THEN "a_star_emergency_routing"
                          ELSE "dijkstra_with_traffic"
             main == IF transport_mode = "emergency"
                     THEN a_star_emergency_routing(g, td, start_node_id, end_node_id, time_period)
                     ELSE dijkstra_with_traffic(g, td, start_node_id, end_node_id, time_period,
                                                NoPeriod, transport_mode)
         IN IF main.path = <<>>
            THEN Shown("no_path", <<algo_name>>, <<>>, 0, 0, <<>>, 0)
            ELSE IF ~(transport_mode = "car" /\ simulate_emergency)
            THEN Shown("path", <<algo_name>>, main.path, main.total_distance * 100,
                       main.total_travel_time, <<>>, 0)
            ELSE LET em == a_star_emergency_routing(g, td, start_node_id, end_node_id, time_period)
                     both == <<algo_name, "a_star_emergency_routing">>
                 IN IF em.path = <<>>
                    THEN Shown("path", both, main.path, main.total_distance * 100,
                               main.total_travel_time, <<>>, 0)
                    ELSE LET sim == simulate_emergency_delay(g, main.path, em.path)
                             delay == Min(sim.delay, main.total_distance * 50)
                         IN Shown("path", both, sim.path, main.total_distance * 100 + delay,
                                  main.total_travel_time + (delay * 60) \div 100, em.path, delay)

-----------------------------------------------------------------------------
(* Values of the variables an operation does not use *)

NoGraph == [edges |-> <<>>, pos |-> [n \in Nodes |-> <<>>]]
NoTraffic == <<>>
NoTables == [kind |-> "none"]
NoMemo == <<>>
NoCall == [op |-> "none"]

Edge(u, v, road_type, distance, capacity, cost) ==
    [u |-> u, v |-> v, road_type |-> road_type, distance |-> distance,
     capacity |-> capacity, cost |-> cost]

(* All sequences over S of length at most n. *)
SeqsUpTo(S, n) == UNION {[1..k -> S] : k \in 0..n}

-----------------------------------------------------------------------------
(* Specification of the edge weight model: one edge between nodes 1 and 2, *)
(* any road type, present or absent capacity, and a traffic table that     *)
(* holds a morning flow for the pair (1, 2) or no entry at all.            *)

CapacityChoices == {NoAttr, 0, 1, 2, 4}

InitWeight ==
    /\ \E road_type \in RoadTypes, capacity \in CapacityChoices, distance \in {NoAttr, 3000} :
          G = [edges |-> <<Edge(1, 2, road_type, distance, capacity, 0)>>,
               pos |-> [n \in Nodes |-> <<>>]]
    /\ \E flow \in 0..MaxFlow, present \in BOOLEAN :
          traffic_data = IF present THEN [t \in {<<"morning", 1, 2>>} |-> flow] ELSE NoTraffic
    /\ tables = NoTables
    /\ memo = NoMemo
    /\ queried = {}
    /\ request = NoCall
    /\ response = NoCall
    /\ calls = 0

CallGetEdgeWeight ==
    /\ calls = 0
    /\ \E u \in {1, 2}, time_period \in {"morning", NoPeriod},
          emergency_time_period \in {"morning", NoPeriod}, transport_mode \in Modes :
          LET e == G.edges[1]
              v == Other(e, u)
          IN /\ request' = [op |-> "get_edge_weight", u |-> u, v |-> v, time_period |-> time_period,
                            emergency_time_period |-> emergency_time_period,
                            transport_mode |-> transport_mode]
             /\ response' = [op |-> "get_edge_weight",
                             weight |-> get_edge_weight(traffic_data, e, u, v, time_period,
                                                        emergency_time_period, EdgeDistance(e), transport_mode),
                             factor |-> edge_factor(traffic_data, e, u, v, time_period,
                                                    emergency_time_period, transport_mode)]
    /\ calls' = calls + 1
    /\ UNCHANGED <<G, traffic_data, tables, memo, queried>>

CallPlannerWeight ==
    /\ calls = 0
    /\ \E u \in {1, 2}, time_period \in {"morning", "night"} :
          LET e == G.edges[1]
              v == Other(e, u)
              capacity == EdgeCapacity(e)
          IN /\ request' = [op |-> "planner_weight", u |-> u, v |-> v, time_period |-> time_period,
                            emergency_time_period |-> NoPeriod, transport_mode |-> "car"]
             /\ response' = [op |-> "planner_weight",
                             weight |-> planner_weight(traffic_data, e, u, v, time_period),
                             factor |-> planner_traffic_factor(
                                            traffic_lookup(traffic_data, time_period, u, v, capacity),
                                            capacity)]
    /\ calls' = calls + 1
    /\ UNCHANGED <<G, traffic_data, tables, memo, queried>>

NextWeight == CallGetEdgeWeight \/ CallPlannerWeight

SpecWeight == InitWeight /\ [][NextWeight]_vars

(* The flow the last weighed edge has in the traffic table for the direction and *)
(* period of the request, NoAttr when the table has no entry.                    *)
RequestPeriod ==
    IF request.time_period # NoPeriod THEN request.time_period ELSE request.emergency_time_period

RequestEntry ==
    IF <<RequestPeriod, request.u, request.v>> \in DOMAIN traffic_data
    THEN traffic_data[<<RequestPeriod, request.u, request.v>>]
    ELSE NoAttr

WeighedCapacity == EdgeCapacity(G.edges[1])

(* C7: whenever get_edge_weight or the memoized planner adjusts the speed of an  *)
(* edge, the factor lies in [0.5, 1.5] (2..6 in quarters); with capacity 0 or no *)
(* entry in the traffic table it is exactly 1.0 (4).                             *)
C7_FactorClamped ==
    (response.op \in {"get_edge_weight", "planner_weight"} /\ response.factor # NoAttr)
        => /\ response.factor >= FactorLow
           /\ response.factor <= FactorHigh
           /\ (WeighedCapacity = 0 \/ RequestEntry = NoAttr) => response.factor = FactorScale

(* A flow of more than 1.5 times a positive capacity was weighed and capped. *)
C7_Witness ==
    /\ response.op = "get_edge_weight"
    /\ WeighedCapacity > 0
    /\ RequestEntry # NoAttr
    /\ 2 * RequestEntry > 3 * WeighedCapacity
    /\ response.factor = FactorHigh

-----------------------------------------------------------------------------
(* Specification of routing queries: a graph of at most MaxEdges edges     *)
(* over the nodes, existing, bus and metro edges of capacity 4, and a      *)
(* traffic table that is empty, holds morning flows for one direction of   *)
(* two pairs, or holds the same morning flow for both directions of a pair.*)

RouteEdgeChoices ==
    {Edge(p[1], p[2], t[1], t[2], 4, 0) :
        p \in {<<1, 2>>, <<2, 3>>, <<1, 3>>},
        t \in {<<"existing", 1000>>, <<"bus", 2000>>, <<"metro", 2000>>}}

OneWayTraffic == [t \in {<<"morning", 1, 2>>, <<"morning", 2, 3>>} |-> IF t[2] = 1 THEN 6 ELSE 2]
BothWaysTraffic == [t \in {<<"morning", 1, 2>>, <<"morning", 2, 1>>} |-> 6]
RouteTraffic == {NoTraffic, OneWayTraffic, BothWaysTraffic}

LinePositions == [n \in Nodes |-> <<n, 0>>]

InitRoute ==
    /\ \E edges \in SeqsUpTo(RouteEdgeChoices, MaxEdges) : G = [edges |-> edges, pos |-> LinePositions]
    /\ traffic_data \in RouteTraffic
    /\ tables = NoTables
    /\ memo = NoMemo
    /\ queried = {}
    /\ request = NoCall
    /\ response = NoCall
    /\ calls = 0

CallDijkstra ==
    /\ calls = 0
    /\ \E start \in Nodes, end \in Nodes, transport_mode \in Modes :
          /\ request' = [op |-> "dijkstra_with_traffic", start |-> start, end |-> end,
                         time_period |-> "morning", transport_mode |-> transport_mode]
          /\ response' = [op |-> "dijkstra_with_traffic",
                          result |-> dijkstra_with_traffic(G, traffic_data, start, end, "morning",
                                                           NoPeriod, transport_mode)]
    /\ calls' = calls + 1
    /\ UNCHANGED <<G, traffic_data, tables, memo, queried>>

(* The form offers only the places available for the mode, and the         *)
(* emergency checkbox only in car mode.                                    *)
SubmitSimulation ==
    /\ calls = 0
    /\ \E transport_mode \in Modes, simulate_emergency \in BOOLEAN :
          /\ simulate_emergency => transport_mode = "car"
          /\ LET places == get_available_places(G, transport_mode)
             IN \E start \in (IF places = {} THEN {None} ELSE places),
                   end \in (IF places = {} THEN {None} ELSE places) :
                   /\ request' = [op |-> "simulate_route", start |-> start, end |-> end,
                                  time_period |-> "morning", transport_mode |-> transport_mode,
                                  simulate_emergency |-> simulate_emergency]
                   /\ response' = simulate_route(G, traffic_data, transport_mode, start, end,
                                                 "morning", simulate_emergency)
    /\ calls' = calls + 1
    /\ UNCHANGED <<G, traffic_data, tables, memo, queried>>

NextRoute == CallDijkstra \/ SubmitSimulation

SpecRoute == InitRoute /\ [][NextRoute]_vars

(* The nodes joined to a node of S by edges whose index is in I. *)
RECURSIVE Closure(_, _, _)
Closure(g, I, S) ==
    LET T == S \cup {n \in Nodes : \E i \in I : Incident(g.edges[i], n) /\ Other(g.edges[i], n) \in S}
    IN IF T = S THEN S ELSE Closure(g, I, T)

(* Sum over the returned path of the weight of each edge taken from path[i] to   *)
(* path[i+1], the edge being the one recorded in edge_keys for the pair.         *)
ForwardTime(g, td, r, time_period, transport_mode) ==
    SeqSum([i \in 1..(Len(r.path) - 1) |->
        LET e == g.edges[EdgeAt(g, r.path[i], r.path[i + 1], r.edge_keys[r.path[i + 1]][r.path[i]])]
        IN get_edge_weight(td, e, r.path[i], r.path[i + 1], time_period, NoPeriod,
                           EdgeDistance(e), transport_mode)])

(* C2: the total travel time dijkstra_with_traffic returns for start # end is    *)
(* the sum of the weights of the path's edges in the direction of travel.        *)
C2_TimeIsForwardSum ==
    (response.op = "dijkstra_with_traffic" /\ request.start # request.end
        /\ response.result.path # <<>>)
        => response.result.total_travel_time
             = ForwardTime(G, traffic_data, response.result, request.time_period, request.transport_mode)

BusOnlyBetween(g, a, b) ==
    /\ \E i \in 1..Len(g.edges) : g.edges[i].road_type = "bus" /\ {g.edges[i].u, g.edges[i].v} = {a, b}
    /\ b \notin Closure(g, {i \in 1..Len(g.edges) : g.edges[i].road_type # "bus"}, {a})

(* C9: a car-mode query between two nodes joined only by a bus edge returns an   *)
(* empty path.                                                                   *)
C9_CarGetsNoBusEdge ==
    (response.op = "dijkstra_with_traffic" /\ request.transport_mode = "car"
        /\ request.start # request.end /\ BusOnlyBetween(G, request.start, request.end))
        => response.result.path = <<>>

(* C8: a submitted request with start = end is turned down as a validation       *)
(* failure: no search is called and no path is shown.                            *)
C8_SamePointRejected ==
    (response.op = "simulate_route" /\ request.start # None /\ request.start = request.end)
        => /\ response.status = "same_point"
           /\ response.searches = <<>>
           /\ response.path = <<>>

(* A request whose start and end are the same node was submitted on a graph in   *)
(* which that node has an edge, and was turned down.                             *)
C8_Witness ==
    /\ response.op = "simulate_route"
    /\ request.start # None
    /\ request.start = request.end
    /\ \E i \in 1..Len(G.edges) : Incident(G.edges[i], request.start)
    /\ response.status = "same_point"

(* C16: every edge on a path returned by dijkstra_with_traffic, the edge that    *)
(* edge_keys names for each step, has a road type the mode may use (car:         *)
(* existing, potential, bus, virtual_connection, virtual_link; bus: bus; metro:  *)
(* metro; emergency: existing, potential, virtual_connection, virtual_link), and *)
(* a bus query between two nodes that a bus edge joins returns a path.           *)
C16_PathEdgesAllowed ==
    response.op = "dijkstra_with_traffic"
        => LET r == response.result
               mode == request.transport_mode
               types == CASE mode = "car" -> {"existing", "potential", "bus",
                                              "virtual_connection", "virtual_link"}
                          [] mode = "bus" -> {"bus"}
                          [] mode = "metro" -> {"metro"}
                          [] mode = "emergency" -> {"existing", "potential",
                                                    "virtual_connection", "virtual_link"}
           IN /\ \A k \in 1..(Len(r.path) - 1) :
                    LET i == EdgeAt(G, r.path[k + 1], r.path[k],
                                    r.edge_keys[r.path[k + 1]][r.path[k]])
                    IN i # 0 /\ G.edges[i].road_type \in types
              /\ (mode = "bus" /\ \E i \in 1..Len(G.edges) :
                                     /\ G.edges[i].road_type = "bus"
                                     /\ {G.edges[i].u, G.edges[i].v} = {request.start, request.end})
                    => r.path # <<>>

(* A bus query between two nodes joined by a road and, after it, a bus edge      *)
(* returned the path over the bus edge, the edge of key 1.                       *)
C16_Witness ==
    /\ response.op = "dijkstra_with_traffic"
    /\ request.transport_mode = "bus"
    /\ Len(response.result.path) = 2
    /\ response.result.edge_keys[request.end][request.start] = 1
    /\ G.edges[EdgeAt(G, request.start, request.end, 0)].road_type = "existing"

-----------------------------------------------------------------------------
(* Specification of the memoized planner: up to MaxMemoCalls calls that    *)
(* share one memo dictionary, which starts empty, over a fixed graph and   *)
(* traffic table.  queried is the set of query keys asked so far.          *)

MaxMemoCalls == 2

MemoEdgeChoices ==
    {Edge(p[1], p[2], t[1], t[2], 4, 0) :
        p \in {<<1, 2>>, <<2, 3>>, <<1, 3>>},
        t \in {<<"existing", 1000>>, <<"existing", 3000>>, <<"bus", 2000>>, <<"potential", 60000>>}}

InitMemo ==
    /\ \E edges \in SeqsUpTo(MemoEdgeChoices, MaxEdges) : G = [edges |-> edges, pos |-> LinePositions]
    /\ traffic_data \in {NoTraffic, OneWayTraffic}
    /\ tables = NoTables
    /\ memo = NoMemo
    /\ queried = {}
    /\ request = NoCall
    /\ response = NoCall
    /\ calls = 0

CallMemoized ==
    /\ calls < MaxMemoCalls
    /\ \E start \in Nodes, end \in Nodes :
          LET key == QueryKey(start, end, "morning")
              r == memoized_path_planning(G, traffic_data, start, end, "morning", memo)
          IN /\ request' = [op |-> "memoized_path_planning", start |-> start, end |-> end,
                            time_period |-> "morning", repeated |-> key \in queried]
             /\ response' = [op |-> "memoized_path_planning", path |-> r.path, weight |-> r.weight,
                             traversed |-> r.traversed, hit |-> r.hit]
             /\ memo' = r.memo
             /\ queried' = queried \cup {key}
    /\ calls' = calls + 1
    /\ UNCHANGED <<G, traffic_data, tables>>

NextMemo == CallMemoized

SpecMemo == InitMemo /\ [][NextMemo]_vars

(* C1: a call whose (start, end, time_period) was already asked with the same    *)
(* memo finds the key in memo and looks at no edge.                              *)
C1_SecondCallIsHit ==
    (response.op = "memoized_path_planning" /\ request.repeated)
        => response.hit /\ response.traversed = 0

-----------------------------------------------------------------------------
(* Specification of the emergency scenario: the same A* query under a      *)
(* table that makes every edge's factor 1.5 and under one that makes it    *)
(* 0.5.  Edges are emergency-allowed roads of capacity 4; every node has a *)
(* position on one latitude, at most one of nodes 1 to 3 lying three       *)
(* hundredths of a degree east of the others.                              *)

MaxAStarEdges == 3

AStarEdgeChoices ==
    {Edge(p[1], p[2], "existing", d, 4, 0) :
        p \in {<<1, 2>>, <<2, 3>>, <<1, 3>>}, d \in {1000, 7000}}

HeavyTraffic == [t \in {"morning"} \X Nodes \X Nodes |-> 8]
LightTraffic == [t \in {"morning"} \X Nodes \X Nodes |-> 1]

InitAStar ==
    /\ \E edges \in SeqsUpTo(AStarEdgeChoices, MaxAStarEdges), east \in {None, 1, 2, 3} :
          G = [edges |-> edges, pos |-> [n \in Nodes |-> IF n = east THEN <<3, 0>> ELSE <<0, 0>>]]
    /\ traffic_data = HeavyTraffic
    /\ tables = NoTables
    /\ memo = NoMemo
    /\ queried = {}
    /\ request = NoCall
    /\ response = NoCall
    /\ calls = 0

EmergencyScenario ==
    /\ calls = 0
    /\ \E start \in Nodes, end \in Nodes :
          /\ request' = [op |-> "emergency_scenario", start |-> start, end |-> end,
                         time_period |-> "morning"]
          /\ response' = [op |-> "emergency_scenario",
                          heavy |-> a_star_emergency_routing(G, traffic_data, start, end, "morning"),
                          light |-> a_star_emergency_routing(G, LightTraffic, start, end, "morning")]
    /\ calls' = calls + 1
    /\ UNCHANGED <<G, traffic_data, tables, memo, queried>>

NextAStar == EmergencyScenario

SpecAStar == InitAStar /\ [][NextAStar]_vars

HeuristicConsistent(g, end) ==
    \A i \in 1..Len(g.edges) : \A n \in {g.edges[i].u, g.edges[i].v} :
        LET e == g.edges[i]
            m == Other(e, n)
        IN heuristic(g, n, end)
             <= get_edge_weight(LightTraffic, e, n, m, NoPeriod, "morning", EdgeDistance(e), "emergency")
                + heuristic(g, m, end)

-----------------------------------------------------------------------------
(* Spanning trees.  tables holds the data frames: neighborhoods maps an id *)
(* to its population in units of 100,000; facilities maps an id to its     *)
(* type; existing_roads and potential_roads are the sequences of rows.     *)
(* A modified weight w is held as 100*w.                                   *)

MaxMstDistance == 100000

(* G.edges(keys=True, data=True): nodes in order, each node's neighbours   *)
(* in adjacency order, skipping the neighbours already visited as nodes.   *)
EdgesView(g) ==
    LET I == {i \in 1..Len(g.edges) : TRUE}
        lo(i) == Min(g.edges[i].u, g.edges[i].v)
        hi(i) == Max(g.edges[i].u, g.edges[i].v)
        pos(i) == CHOOSE k \in 1..Len(Adjacency(g, lo(i))) : Adjacency(g, lo(i))[k] = i
        k == [i \in I |-> lo(i) * (Len(g.edges) + 1) + pos(i)]
        order == OrderBy(I, k)
    IN [j \in 1..Len(order) |-> [u |-> lo(order[j]), v |-> hi(order[j]), i |-> order[j]]]

population_by_id(t, n) == IF n \in DOMAIN t.neighborhoods THEN t.neighborhoods[n] ELSE 0

critical_facilities(t) ==
    {n \in DOMAIN t.facilities :
        t.facilities[n] \in {"hospital", "medical", "government", "airport", "police", "fire"}}

modified_weight(t, e) ==
    LET total_pop == population_by_id(t, e.u) + population_by_id(t, e.v)
        pop_factor == 10 - Min(10, total_pop)
        facility_factor == IF e.u \in critical_facilities(t) \/ e.v \in critical_facilities(t)
                           THEN 5 ELSE 10
    IN e.distance * (7 * pop_factor + 3 * facility_factor)

(* every edge of the graph is a candidate *)
mst_candidates_all(g) == EdgesView(g)

(* The candidate edges: those with a distance of at most 100 km. *)
mst_candidates(g) ==
    SelectSeq(EdgesView(g), LAMBDA c : g.edges[c.i].distance # NoAttr
                                       /\ g.edges[c.i].distance <= MaxMstDistance)

(* list.sort(key=...): stable, ascending. *)
RECURSIVE StableSort(_, _)
StableSort(seq, key) ==
    IF seq = <<>> THEN <<>>
    ELSE LET j == CHOOSE a \in 1..Len(seq) :
                     /\ \A b \in 1..Len(seq) : key[seq[a]] <= key[seq[b]]
                     /\ \A b \in 1..(a - 1) : key[seq[b]] > key[seq[a]]
         IN <<seq[j]>> \o StableSort(SubSeq(seq, 1, j - 1) \o SubSeq(seq, j + 1, Len(seq)), key)

(* Union-find.  uf = [parent, rank]. *)
RECURSIVE find_root(_, _)
find_root(parent, node) == IF parent[node] # node THEN find_root(parent, parent[node]) ELSE node

(* find(node) with its path compression. *)
RECURSIVE find_compress(_, _)
find_compress(parent, node) ==
    IF parent[node] # node
    THEN [find_compress(parent, parent[node]) EXCEPT ![node] = find_root(parent, node)]
    ELSE parent

uf_find(uf, node) == [uf EXCEPT !.parent = find_compress(uf.parent, node)]

(* a union that joins nothing *)
uf_union_none(uf, node1, node2) == uf

uf_union(uf, node1, node2) ==
    LET uf2 == uf_find(uf_find(uf, node1), node2)
        root1 == find_root(uf.parent, node1)
        root2 == find_root(uf.parent, node2)
    IN IF root1 = root2 THEN uf2
       ELSE IF uf2.rank[root1] < uf2.rank[root2] THEN [uf2 EXCEPT !.parent[root1] = root2]
       ELSE IF uf2.rank[root1] > uf2.rank[root2] THEN [uf2 EXCEPT !.parent[root2] = root1]
       ELSE [uf2 EXCEPT !.parent[root2] = root1, !.rank[root1] = @ + 1]

(* Kruskal pass over the sorted candidates; st = [uf, mst_edges]. *)
RECURSIVE kruskal(_, _)
kruskal(st, cands) ==
    IF cands = <<>> THEN st
    ELSE LET c == Head(cands)
             uf1 == uf_find(uf_find(st.uf, c.u), c.v)
         IN IF find_root(st.uf.parent, c.u) # find_root(st.uf.parent, c.v)
            THEN kruskal([uf |-> uf_union(uf1, c.u, c.v), mst_edges |-> Append(st.mst_edges, c)],
                         Tail(cands))
            ELSE kruskal([st EXCEPT !.uf = uf1], Tail(cands))

MstDegree(mst_edges, n) ==
    Cardinality({{mst_edges[j].u, mst_edges[j].v} : j \in {a \in 1..Len(mst_edges) :
                    n \in {mst_edges[a].u, mst_edges[a].v}}})

(* The repair pass for the critical facilities, in the order of the list. *)
RECURSIVE repair(_, _, _, _)
repair(st, cands, key, facilities) ==
    IF facilities = <<>> THEN st
    ELSE LET facility == Head(facilities)
             C == {a \in 1..Len(cands) :
                      /\ (cands[a].u = facility \/ cands[a].v = facility)
                      /\ find_root(st.uf.parent, cands[a].u) # find_root(st.uf.parent, cands[a].v)}
         IN IF facility \in Nodes /\ MstDegree(st.mst_edges, facility) < 2 /\ C # {}
            THEN LET a == CHOOSE x \in C : /\ \A y \in C : key[cands[x]] <= key[cands[y]]
                                           /\ \A y \in C : y < x => key[cands[y]] > key[cands[x]]
                     c == cands[a]
                 IN repair([uf |-> uf_union(st.uf, c.u, c.v), mst_edges |-> Append(st.mst_edges, c)],
                           cands, key, Tail(facilities))
            ELSE repair(st, cands, key, Tail(facilities))

(* sum(population_by_id.values()) is the divisor of the coverage percentage. *)
PopulationTotal(t) == SeqSum([j \in 1..NumNodes |-> population_by_id(t, j)])

(* The attribute dictionary that a store into mst[u][v] reaches.           *)
(* mst.add_edge(u, v, **original_data) fills a dictionary of mst with the  *)
(* items of original_data, the dictionary of edge i of G; the dictionary   *)
(* stored in mst is mst's own.                                             *)
mst_edge_dict_shared(c) == [owner |-> "G", i |-> c.i]

mst_edge_dict(c) == [owner |-> "mst", i |-> c.i]

(* The stores mst[u][v]['modified_weight'] = ..., one per edge taken. *)
attribute_stores(mst_edges, key) ==
    [j \in 1..Len(mst_edges) |->
        [target |-> mst_edge_dict(mst_edges[j]), name |-> "modified_weight",
         value |-> key[mst_edges[j]]]]

(* The source graph after the stores: those into a dictionary of G show in G. *)
source_after(g, stores) ==
    [g EXCEPT !.edges =
        [i \in 1..Len(g.edges) |->
            LET S == {j \in 1..Len(stores) : stores[j].target = [owner |-> "G", i |-> i]}
            IN IF S = {} THEN g.edges[i]
               ELSE g.edges[i] @@ ("modified_weight" :> stores[CHOOSE j \in S : \A k \in S : k <= j].value)]]

population_weighted_mst(g, t) ==
    LET cands == mst_candidates(g)
        key == [c \in {cands[a] : a \in 1..Len(cands)} |-> modified_weight(t, g.edges[c.i])]
        sorted == StableSort(cands, key)
        uf0 == [parent |-> [n \in Nodes |-> n], rank |-> [n \in Nodes |-> 0]]
        built == kruskal([uf |-> uf0, mst_edges |-> <<>>], sorted)
        fixed == repair(built, sorted, key, OrderBy(critical_facilities(t), [n \in Nodes |-> n]))
    IN IF DOMAIN t.neighborhoods # {} /\ PopulationTotal(t) = 0
       THEN [status |-> "ZeroDivisionError", mst_edges |-> <<>>, kruskal_edges |-> <<>>,
             stores |-> attribute_stores(fixed.mst_edges, key)]
       ELSE [status |-> "ok", mst_edges |-> fixed.mst_edges, kruskal_edges |-> built.mst_edges,
             stores |-> attribute_stores(fixed.mst_edges, key)]

-----------------------------------------------------------------------------
(* Budget-constrained and connectivity-based trees.  A row of              *)
(* existing_roads is [from_id, to_id]; a row of potential_roads is         *)
(* [from_id, to_id, cost].  The state of the two loops is                  *)
(* [status, mst_edges, mst, remaining_budget, decided], mst the set of     *)
(* node pairs of the simple graph the function builds and decided the      *)
(* potential rows in the order the loop took them, each with the index of  *)
(* the edge it appended to mst_edges (0 if it appended none).              *)

(* The nodes joined to a node of S by the pairs of P. *)
RECURSIVE PairClosure(_, _)
PairClosure(P, S) ==
    LET T == S \cup {n \in Nodes : \E m \in S : {n, m} \in P}
    IN IF T = S THEN S ELSE PairClosure(P, T)

has_path(mst, u, v) == v \in PairClosure(mst, {u})

(* The first edge between u and v, keys ascending, of the road type with the least *)
(* value attr[i] over the edge indices i; 0 if none.                               *)
best_key(g, u, v, road_type, attr) ==
    LET S == {i \in 1..Len(g.edges) : {g.edges[i].u, g.edges[i].v} = {u, v}
                                       /\ g.edges[i].road_type = road_type}
    IN IF S = {} THEN 0
       ELSE CHOOSE i \in S : /\ \A j \in S : attr[i] <= attr[j]
                             /\ \A j \in S : j < i => attr[j] > attr[i]

EdgeCosts(g) == [i \in 1..Len(g.edges) |-> g.edges[i].cost]
EdgeDistances(g) == [i \in 1..Len(g.edges) |-> g.edges[i].distance]

RECURSIVE add_existing(_, _, _)
add_existing(g, st, rows) ==
    IF rows = <<>> \/ st.status # "ok" THEN st
    ELSE LET u == Head(rows).from_id
             v == Head(rows).to_id
         IN IF ~(u \in Nodes /\ v \in Nodes) THEN add_existing(g, st, Tail(rows))
            ELSE IF ~HasEdge(g, u, v) THEN [st EXCEPT !.status = "KeyError"]
            ELSE LET k == best_key(g, u, v, "existing", EdgeDistances(g))
                 IN IF k # 0
                    THEN add_existing(g, [st EXCEPT !.mst_edges = Append(@, [u |-> u, v |-> v, i |-> k]),
                                                    !.mst = @ \cup {{u, v}}],
                                      Tail(rows))
                    ELSE add_existing(g, st, Tail(rows))

RECURSIVE add_potential(_, _, _)
add_potential(g, st, rows) ==
    IF rows = <<>> \/ st.status # "ok" THEN st
    ELSE LET u == Head(rows).from_id
             v == Head(rows).to_id
             cost == Head(rows).cost
             skipped == [st EXCEPT !.decided = Append(@, [row |-> Head(rows), i |-> 0])]
         IN IF ~(u \in Nodes /\ v \in Nodes /\ ~has_path(st.mst, u, v) /\ cost <= st.remaining_budget)
            THEN add_potential(g, skipped, Tail(rows))
            ELSE IF ~HasEdge(g, u, v) THEN [st EXCEPT !.status = "KeyError"]
            ELSE LET k == best_key(g, u, v, "potential", EdgeCosts(g))
                 IN IF k # 0
                    THEN add_potential(g, [st EXCEPT !.mst_edges = Append(@, [u |-> u, v |-> v, i |-> k]),
                                                     !.mst = @ \cup {{u, v}},
                                                     !.remaining_budget = @ - cost,
                                                     !.decided = Append(@, [row |-> Head(rows), i |-> k])],
                                       Tail(rows))
                    ELSE add_potential(g, skipped, Tail(rows))

RowCosts(rows) == [r \in {rows[a] : a \in 1..Len(rows)} |-> r.cost]

budget_constrained_mst(g, budget, t) ==
    LET potential_edges == StableSort(t.potential_roads, RowCosts(t.potential_roads))
        st0 == [status |-> "ok", mst_edges |-> <<>>, mst |-> {}, remaining_budget |-> budget,
                decided |-> <<>>]
        st == add_potential(g, add_existing(g, st0, t.existing_roads), potential_edges)
    IN [status |-> st.status,
        mst_edges |-> IF st.status = "ok" THEN st.mst_edges ELSE <<>>,
        total_cost |-> IF st.status = "ok" THEN budget - st.remaining_budget ELSE 0,
        decided |-> st.decided]

important_nodes(t) ==
    {n \in DOMAIN t.facilities : t.facilities[n] \in {"hospital", "school", "government", "police", "fire"}}

(* every road on the lowest level *)
edge_priority_flat(t, row) == 2

(* The first component of the key (level, cost). *)
edge_priority(t, row) ==
    IF row.from_id \in important_nodes(t) /\ row.to_id \in important_nodes(t) THEN 0
    ELSE IF row.from_id \in important_nodes(t) \/ row.to_id \in important_nodes(t) THEN 1
    ELSE 2

connectivity_based_mst(g, budget, t) ==
    LET rows == StableSort(t.potential_roads, RowCosts(t.potential_roads))
        (* a stable sort by cost, then by level, orders by (level, cost) *)
        potential_edges == StableSort(rows, [r \in {rows[a] : a \in 1..Len(rows)} |-> edge_priority(t, r)])
        st0 == [status |-> "ok", mst_edges |-> <<>>, mst |-> {}, remaining_budget |-> budget,
                decided |-> <<>>]
        st == add_potential(g, add_existing(g, st0, t.existing_roads), potential_edges)
    IN [status |-> st.status,
        mst_edges |-> IF st.status = "ok" THEN st.mst_edges ELSE <<>>,
        total_cost |-> IF st.status = "ok" THEN budget - st.remaining_budget ELSE 0,
        decided |-> st.decided]

-----------------------------------------------------------------------------
(* Specification of the spanning-tree builders: a graph of at most         *)
(* MaxMstEdges edges (existing roads of 1 km, potential roads of 2 km that *)
(* cost 2 or 5, bus edges that inherited 120 km from a rejected road), the *)
(* road tables the graph was built from, one of three population tables    *)
(* and one of three facility tables.                                       *)

MaxMstEdges == 2

MstEdgeChoices ==
    {Edge(p[1], p[2], t[1], t[2], 4, t[3]) :
        p \in {<<1, 2>>, <<2, 3>>, <<1, 3>>},
        t \in {<<"existing", 1000, 0>>, <<"bus", 120000, 0>>,
               <<"potential", 2000, 2>>, <<"potential", 2000, 5>>}}

(* The rows behind the edges: one per existing road, one per rejected road *)
(* whose distance a bus edge carries, one per potential road.              *)
ExistingRows(edges) ==
    LET rows == SelectSeq(edges, LAMBDA e : e.road_type \in {"existing", "bus"})
    IN [j \in 1..Len(rows) |-> [from_id |-> rows[j].u, to_id |-> rows[j].v]]

PotentialRows(edges) ==
    LET rows == SelectSeq(edges, LAMBDA e : e.road_type = "potential")
    IN [j \in 1..Len(rows) |-> [from_id |-> rows[j].u, to_id |-> rows[j].v, cost |-> rows[j].cost]]

PopulationTables == {<<>>, [n \in {1, 2} |-> IF n = 1 THEN 2 ELSE 12], [n \in {1} |-> 0]}
FacilityTables == {<<>>, [n \in {1} |-> "hospital"], [n \in {2, 3} |-> IF n = 2 THEN "hospital" ELSE "mall"]}
BudgetChoices == {0, 3, 10}

InitMst ==
    /\ \E edges \in SeqsUpTo(MstEdgeChoices, MaxMstEdges),
          neighborhoods \in PopulationTables, facilities \in FacilityTables :
          /\ G = [edges |-> edges, pos |-> LinePositions]
          /\ tables = [kind |-> "frames", neighborhoods |-> neighborhoods, facilities |-> facilities,
                       existing_roads |-> ExistingRows(edges), potential_roads |-> PotentialRows(edges)]
    /\ traffic_data = NoTraffic
    /\ memo = NoMemo
    /\ queried = {}
    /\ request = NoCall
    /\ response = NoCall
    /\ calls = 0

CallPopulationMst ==
    /\ calls = 0
    /\ request' = [op |-> "population_weighted_mst"]
    /\ LET r == population_weighted_mst(G, tables)
       IN /\ response' = [op |-> "population_weighted_mst", result |-> r]
          /\ G' = source_after(G, r.stores)
    /\ calls' = calls + 1
    /\ UNCHANGED <<traffic_data, tables, memo, queried>>

CallBudgetMst ==
    /\ calls = 0
    /\ \E budget \in BudgetChoices :
          /\ request' = [op |-> "budget_constrained_mst", budget |-> budget]
          /\ response' = [op |-> "budget_constrained_mst",
                          result |-> budget_constrained_mst(G, budget, tables)]
    /\ calls' = calls + 1
    /\ UNCHANGED <<G, traffic_data, tables, memo, queried>>

CallConnectivityMst ==
    /\ calls = 0
    /\ \E budget \in BudgetChoices :
          /\ request' = [op |-> "connectivity_based_mst", budget |-> budget]
          /\ response' = [op |-> "connectivity_based_mst",
                          result |-> connectivity_based_mst(G, budget, tables)]
    /\ calls' = calls + 1
    /\ UNCHANGED <<G, traffic_data, tables, memo, queried>>

NextMst == CallPopulationMst \/ CallBudgetMst \/ CallConnectivityMst

SpecMst == InitMst /\ [][NextMst]_vars

(* An edge list has no cycle: no edge joins two nodes its predecessors already join. *)
Acyclic(mst_edges) ==
    \A j \in 1..Len(mst_edges) :
        /\ mst_edges[j].u # mst_edges[j].v
        /\ ~has_path({{mst_edges[a].u, mst_edges[a].v} : a \in 1..(j - 1)},
                     mst_edges[j].u, mst_edges[j].v)

NoPairTwice(mst_edges) ==
    \A a, b \in 1..Len(mst_edges) :
        a # b => {mst_edges[a].u, mst_edges[a].v} # {mst_edges[b].u, mst_edges[b].v}

(* Number of connected components of the graph restricted to the edges in I. *)
Components(g, I) == Cardinality({Closure(g, I, {n}) : n \in Nodes})

AllEdges(g) == 1..Len(g.edges)
ShortEdges(g) == {i \in 1..Len(g.edges) : g.edges[i].distance # NoAttr /\ g.edges[i].distance <= MaxMstDistance}

C4_NoCycleNoDuplicate ==
    (response.op \in {"budget_constrained_mst", "connectivity_based_mst"}
        /\ response.result.status = "ok")
        => /\ Acyclic(response.result.mst_edges)
           /\ NoPairTwice(response.result.mst_edges)

-----------------------------------------------------------------------------
(* Maintenance budgeting.  A row of existing_roads is                      *)
(* [from_id, to_id, distance, condition], distance in tenths of a km.      *)
(* Costs and budgets are held in hundredths of a million, benefits times   *)
(* ten, populations in units of 100,000, so that distance * (11 -          *)
(* condition) is the cost and int(cost * 10) its integer quotient by 10.   *)

CostScale == 10

maintenance_priority(road) == (10 - road.condition) * road.distance
maintenance_cost(road) == road.distance * (11 - road.condition)
benefit(road) == Max(0, 9 - road.condition) * road.distance
road_id(road) == <<road.from_id, road.to_id>>

affected_population(t, road) == population_by_id(t, road.from_id) + population_by_id(t, road.to_id)
population_adjusted_benefit(t, road) == benefit(road) * affected_population(t, road)

cost_units(road) == maintenance_cost(road) \div CostScale
budget_units(budget) == budget \div CostScale

(* One pass of the inner loop, b from budget_units down to cost_units: *)
(* entry b reads entry b - cost_units before that entry is rewritten.  *)
knapsack_road(t, st, road) ==
    LET c == cost_units(road)
        improves(b) == b >= c /\ st.dp[b - c] + population_adjusted_benefit(t, road) > st.dp[b]
    IN IF c <= 0 THEN st
       ELSE [dp |-> [b \in DOMAIN st.dp |->
                        IF improves(b) THEN st.dp[b - c] + population_adjusted_benefit(t, road)
                        ELSE st.dp[b]],
             selected_roads |-> [b \in DOMAIN st.dp |->
                        IF improves(b) THEN Append(st.selected_roads[b - c], road_id(road))
                        ELSE st.selected_roads[b]]]

RECURSIVE knapsack(_, _, _)
knapsack(t, st, roads) ==
    IF roads = <<>> THEN st ELSE knapsack(t, knapsack_road(t, st, Head(roads)), Tail(roads))

(* next(road for road in roads if road["road_id"] == id) *)
road_info(roads, id) == roads[CHOOSE j \in 1..Len(roads) :
                                 /\ road_id(roads[j]) = id
                                 /\ \A a \in 1..(j - 1) : road_id(roads[a]) # id]

allocate_road_maintenance_resources(t, budget) ==
    LET rows == t.existing_roads
        roads == StableSort(rows, [r \in {rows[a] : a \in 1..Len(rows)} |-> 0 - maintenance_priority(r)])
        units == 0..budget_units(budget)
        st == knapsack(t, [dp |-> [b \in units |-> 0], selected_roads |-> [b \in units |-> <<>>]], roads)
        optimal_budget_units == CHOOSE b \in units :
                                    /\ \A a \in units : st.dp[a] <= st.dp[b]
                                    /\ \A a \in units : a < b => st.dp[a] < st.dp[b]
        optimal_roads == st.selected_roads[optimal_budget_units]
    IN [total_budget |-> budget,
        used_budget |-> optimal_budget_units,
        total_benefit |-> st.dp[optimal_budget_units],
        roads_to_maintain |-> [j \in 1..Len(optimal_roads) |-> road_info(roads, optimal_roads[j])]]

-----------------------------------------------------------------------------
(* Specification of the maintenance allocator: at most MaxRoads rows of    *)
(* 0.1, 0.5 or 3 km in condition 3 or 8, two population tables and four    *)
(* budgets (0, 0.2, 1 and 10 million).                                     *)

MaxRoads == 3

RoadChoices ==
    {[from_id |-> p[1], to_id |-> p[2], distance |-> d, condition |-> c] :
        p \in {<<1, 2>>, <<2, 3>>}, d \in {1, 5, 30}, c \in {3, 8}}

AllocPopulationTables == {[n \in {1, 2} |-> n], [n \in {2} |-> 0]}
AllocBudgetChoices == {0, 20, 100, 1000}

InitAlloc ==
    /\ \E rows \in SeqsUpTo(RoadChoices, MaxRoads), neighborhoods \in AllocPopulationTables :
          tables = [kind |-> "frames", neighborhoods |-> neighborhoods, facilities |-> <<>>,
                    existing_roads |-> rows, potential_roads |-> <<>>]
    /\ G = NoGraph
    /\ traffic_data = NoTraffic
    /\ memo = NoMemo
    /\ queried = {}
    /\ request = NoCall
    /\ response = NoCall
    /\ calls = 0

CallAllocate ==
    /\ calls = 0
    /\ \E budget \in AllocBudgetChoices :
          /\ request' = [op |-> "allocate_road_maintenance_resources", budget |-> budget]
          /\ response' = [op |-> "allocate_road_maintenance_resources",
                          result |-> allocate_road_maintenance_resources(tables, budget)]
    /\ calls' = calls + 1
    /\ UNCHANGED <<G, traffic_data, tables, memo, queried>>

NextAlloc == CallAllocate

SpecAlloc == InitAlloc /\ [][NextAlloc]_vars

RECURSIVE SumOver(_, _)
SumOver(S, f) == IF S = {} THEN 0 ELSE LET x == CHOOSE y \in S : TRUE IN f[x] + SumOver(S \ {x}, f)

(* The largest summed benefit of a set of rows whose summed cost is within the budget. *)
BruteForceBest(t, budget) ==
    LET rows == t.existing_roads
        cost == [j \in 1..Len(rows) |-> maintenance_cost(rows[j])]
        gain == [j \in 1..Len(rows) |-> population_adjusted_benefit(t, rows[j])]
        feasible == {S \in SUBSET (1..Len(rows)) : SumOver(S, cost) <= budget}
    IN CHOOSE best \in {SumOver(S, gain) : S \in feasible} :
           \A S \in feasible : SumOver(S, gain) <= best

SelectedCost(result) ==
    SeqSum([j \in 1..Len(result.roads_to_maintain) |-> maintenance_cost(result.roads_to_maintain[j])])

SelectedBenefit(t, result) ==
    SeqSum([j \in 1..Len(result.roads_to_maintain) |->
               population_adjusted_benefit(t, result.roads_to_maintain[j])])

(* C5: the total_benefit returned is the largest summed population-adjusted      *)
(* benefit of any set of roads whose summed cost is within the budget, and the   *)
(* roads returned are such a set.                                                *)
C5_BenefitIsBruteForceBest ==
    response.op = "allocate_road_maintenance_resources"
        => /\ response.result.total_benefit = BruteForceBest(tables, request.budget)
           /\ SelectedBenefit(tables, response.result) = response.result.total_benefit
           /\ SelectedCost(response.result) <= request.budget

(* C6: the summed maintenance_cost of the roads selected is within the budget.   *)
C6_SelectedCostWithinBudget ==
    response.op = "allocate_road_maintenance_resources"
        => SelectedCost(response.result) <= request.budget

-----------------------------------------------------------------------------
(* Mixed-mode search.  The loop state is that of Dijkstra plus modes, the  *)
(* mode by which each node was last reached ("" for None).  The penalty of *)
(* 5 minutes for a change of mode is 5 * 120000 units of time.             *)

ModeSwitchPenalty == 600000

NoMode == ""

(* possible_modes of an edge, in the order the code tries them *)
possible_modes(road_type) ==
    (IF road_type \in {"existing", "potential", "virtual_connection", "virtual_link"}
     THEN <<"car">> ELSE <<>>)
    \o (IF road_type = "bus" THEN <<"bus">> ELSE <<>>)
    \o (IF road_type = "metro" THEN <<"metro">> ELSE <<>>)

(* the penalty for every mode other than the recorded one, known or not *)
switch_penalty_unknown_too(current_mode, mode) ==
    IF current_mode # mode THEN ModeSwitchPenalty ELSE 0

(* if current_mode is not None and current_mode != mode: weight += 5 *)
switch_penalty(current_mode, mode) ==
    IF current_mode # NoMode /\ current_mode # mode THEN ModeSwitchPenalty ELSE 0

mixed_init(start) ==
    [distances |-> [n \in Nodes |-> IF n = start THEN 0 ELSE INF],
     previous |-> [n \in Nodes |-> None],
     edge_keys |-> [n \in Nodes |-> [m \in Nodes |-> NoAttr]],
     modes |-> [n \in Nodes |-> NoMode],
     pq |-> {<<0, start>>},
     done |-> FALSE,
     relaxed |-> <<>>]

(* current_mode is read once per popped node, before the loop over its edges. *)
(* st.relaxed lists the candidates weighed: the node left, the candidate's    *)
(* mode, the mode that modes holds for the node at that moment, and what was  *)
(* added to the weight of the edge.                                           *)
mixed_relax(g, td, time_period, st, current_node, current_mode, i, mode) ==
    LET e == g.edges[i]
        neighbor == Other(e, current_node)
        base == get_edge_weight(td, e, current_node, neighbor, time_period, NoPeriod,
                                EdgeDistance(e), mode)
        weight == base + switch_penalty(current_mode, mode)
        distance == st.distances[current_node] + weight
        seen == [st EXCEPT !.relaxed = Append(@, [node |-> current_node, mode |-> mode,
                                                  recorded |-> st.modes[current_node],
                                                  added |-> weight - base])]
    IN IF base = INF THEN st
       ELSE IF distance < st.distances[neighbor]
            THEN [seen EXCEPT !.distances[neighbor] = distance,
                              !.previous[neighbor] = current_node,
                              !.edge_keys[neighbor][current_node] = EdgeKey(g, i),
                              !.modes[neighbor] = mode,
                              !.pq = @ \cup {<<distance, neighbor>>}]
            ELSE seen

RECURSIVE mixed_relax_modes(_, _, _, _, _, _, _, _)
mixed_relax_modes(g, td, time_period, st, current_node, current_mode, i, ms) ==
    IF ms = <<>> THEN st
    ELSE mixed_relax_modes(g, td, time_period,
                           mixed_relax(g, td, time_period, st, current_node, current_mode, i, Head(ms)),
                           current_node, current_mode, i, Tail(ms))

RECURSIVE mixed_relax_all(_, _, _, _, _, _, _)
mixed_relax_all(g, td, time_period, st, current_node, current_mode, adj) ==
    IF adj = <<>> THEN st
    ELSE mixed_relax_all(g, td, time_period,
                         mixed_relax_modes(g, td, time_period, st, current_node, current_mode, Head(adj),
                                           possible_modes(g.edges[Head(adj)].road_type)),
                         current_node, current_mode, Tail(adj))

mixed_step(g, td, end, time_period, st) ==
    IF st.pq = {} THEN [st EXCEPT !.done = TRUE]
    ELSE LET top == HeapMin(st.pq)
             st1 == [st EXCEPT !.pq = @ \ {top}]
         IN IF top[2] = end THEN [st1 EXCEPT !.done = TRUE]
            ELSE IF top[1] > st1.distances[top[2]] THEN st1
            ELSE mixed_relax_all(g, td, time_period, st1, top[2], st1.modes[top[2]],
                                 Adjacency(g, top[2]))

RECURSIVE mixed_loop(_, _, _, _, _)
mixed_loop(g, td, end, time_period, st) ==
    IF st.done THEN st ELSE mixed_loop(g, td, end, time_period, mixed_step(g, td, end, time_period, st))

(* acc = [path, total_weight, looped]; the weight of an edge is that of the *)
(* mode by which "current" was reached, from current to next_node, with no  *)
(* penalty.                                                                 *)
RECURSIVE mixed_reconstruct(_, _, _, _, _, _, _)
mixed_reconstruct(g, td, time_period, st, current, acc, fuel) ==
    IF current = None THEN acc
    ELSE IF fuel = 0 THEN [acc EXCEPT !.looped = TRUE]
    ELSE LET next_node == st.previous[current]
         IN IF next_node = None
            THEN [acc EXCEPT !.path = <<current>> \o @]
            ELSE LET e == g.edges[EdgeAt(g, current, next_node, st.edge_keys[current][next_node])]
                     weight == get_edge_weight(td, e, current, next_node, time_period, NoPeriod,
                                               EdgeDistance(e), st.modes[current])
                 IN mixed_reconstruct(g, td, time_period, st, next_node,
                                      [acc EXCEPT !.path = <<current>> \o @,
                                                  !.total_weight = @ + weight],
                                      fuel - 1)

find_mixed_mode_path(g, td, start, end, time_period) ==
    LET st == mixed_loop(g, td, end, time_period, mixed_init(start))
        acc0 == [path |-> <<>>, total_weight |-> 0, looped |-> FALSE]
        found == IF st.previous[end] # None \/ end = start
                 THEN mixed_reconstruct(g, td, time_period, st, end, acc0, NumNodes + 1)
                 ELSE acc0
    IN [path |-> found.path, total_weight |-> found.total_weight, looped |-> found.looped,
        modes |-> st.modes, distances |-> st.distances, previous |-> st.previous,
        edge_keys |-> st.edge_keys, relaxed |-> st.relaxed]

(* The tuple dijkstra_with_traffic returns: path, total_distance,          *)
(* total_travel_time, edge_keys, execution_time.                           *)
dijkstra_returned(r) ==
    <<r.path, r.total_distance, r.total_travel_time, r.edge_keys, "execution_time">>

(* multi_modal_path_planning: for car, bus and metro the tuple of          *)
(* dijkstra_with_traffic is unpacked into four names (path, total_weight   *)
(* and two ignored ones); an unpacking of a tuple of another length raises *)
(* ValueError.  The mixed mode takes the pair of find_mixed_mode_path.     *)
(* Result: [status, results], results a function from the modes done to    *)
(* [path, total_weight].                                                   *)
multi_modal_path_planning(g, td, start, end, time_period) ==
    LET single == [mode \in {"car", "bus", "metro"} |->
                      dijkstra_returned(dijkstra_with_traffic(g, td, start, end, time_period,
                                                              NoPeriod, mode))]
        mixed == find_mixed_mode_path(g, td, start, end, time_period)
    IN IF \E mode \in DOMAIN single : Len(single[mode]) # 4
       THEN [status |-> "ValueError", results |-> <<>>]
       ELSE [status |-> "ok",
             results |-> [mode \in {"car", "bus", "metro", "mixed"} |->
                             IF mode = "mixed"
                             THEN [path |-> mixed.path, total_weight |-> mixed.total_weight]
                             ELSE [path |-> single[mode][1], total_weight |-> single[mode][2]]]]

-----------------------------------------------------------------------------
(* Specification of the searches: one query with start # end on a graph   *)
(* of at most MaxEdges edges between 1-2 and 2-3 (roads of 1 km and of     *)
(* 60 km, bus and metro edges of 2 km, capacity 4), with no traffic or with *)
(* morning flows for one direction of two pairs.  The response of every    *)
(* search is [op, path, total_distance, total_weight, looped]; the planner *)
(* and the mixed-mode search return no distance (0 here).                  *)

SearchEdgeChoices ==
    {Edge(p[1], p[2], t[1], t[2], 4, 0) :
        p \in {<<1, 2>>, <<2, 3>>},
        t \in {<<"existing", 1000>>, <<"existing", 60000>>, <<"bus", 2000>>, <<"metro", 2000>>}}

InitSearch ==
    /\ \E edges \in SeqsUpTo(SearchEdgeChoices, MaxEdges) : G = [edges |-> edges, pos |-> LinePositions]
    /\ traffic_data \in {NoTraffic, OneWayTraffic}
    /\ tables = NoTables
    /\ memo = NoMemo
    /\ queried = {}
    /\ request = NoCall
    /\ response = NoCall
    /\ calls = 0

Found(op, path, total_distance, total_weight, looped) ==
    [op |-> op, path |-> path, total_distance |-> total_distance,
     total_weight |-> total_weight, looped |-> looped]

SearchDijkstra ==
    /\ calls = 0
    /\ \E start \in Nodes, transport_mode \in Modes : \E end \in Nodes \ {start} :
          LET r == dijkstra_with_traffic(G, traffic_data, start, end, "morning", NoPeriod, transport_mode)
          IN /\ request' = [op |-> "dijkstra_with_traffic", start |-> start, end |-> end,
                            transport_mode |-> transport_mode]
             /\ response' = Found("dijkstra_with_traffic", r.path, r.total_distance,
                                  r.total_travel_time, r.looped)
                                @@ [result |-> r]
    /\ calls' = calls + 1
    /\ UNCHANGED <<G, traffic_data, tables, memo, queried>>

SearchAStar ==
    /\ calls = 0
    /\ \E start \in Nodes : \E end \in Nodes \ {start} :
          LET r == a_star_emergency_routing(G, traffic_data, start, end, "morning")
          IN /\ request' = [op |-> "a_star_emergency_routing", start |-> start, end |-> end,
                            transport_mode |-> "emergency"]
             /\ response' = Found("a_star_emergency_routing", r.path, r.total_distance,
                                  r.total_travel_time, r.looped)
                                @@ [result |-> r]
    /\ calls' = calls + 1
    /\ UNCHANGED <<G, traffic_data, tables, memo, queried>>

SearchMemoized ==
    /\ calls = 0
    /\ \E start \in Nodes : \E end \in Nodes \ {start} :
          LET r == memoized_path_planning(G, traffic_data, start, end, "morning", memo)
          IN /\ request' = [op |-> "memoized_path_planning", start |-> start, end |-> end,
                            transport_mode |-> "car"]
             /\ response' = Found("memoized_path_planning", r.path, 0, r.weight, r.looped)
                                @@ [result |-> r]
             /\ memo' = r.memo
             /\ queried' = queried \cup {QueryKey(start, end, "morning")}
    /\ calls' = calls + 1
    /\ UNCHANGED <<G, traffic_data, tables>>

SearchMixed ==
    /\ calls = 0
    /\ \E start \in Nodes : \E end \in Nodes \ {start} :
          LET r == find_mixed_mode_path(G, traffic_data, start, end, "morning")
          IN /\ request' = [op |-> "find_mixed_mode_path", start |-> start, end |-> end,
                            transport_mode |-> "mixed"]
             /\ response' = Found("find_mixed_mode_path", r.path, 0, r.total_weight, r.looped)
                                @@ [result |-> r]
    /\ calls' = calls + 1
    /\ UNCHANGED <<G, traffic_data, tables, memo, queried>>

SearchMultiModal ==
    /\ calls = 0
    /\ \E start \in Nodes : \E end \in Nodes \ {start} :
          LET r == multi_modal_path_planning(G, traffic_data, start, end, "morning")
          IN /\ request' = [op |-> "multi_modal_path_planning", start |-> start, end |-> end,
                            transport_mode |-> "mixed"]
             /\ response' = [op |-> "multi_modal_path_planning", status |-> r.status,
                             results |-> r.results]
    /\ calls' = calls + 1
    /\ UNCHANGED <<G, traffic_data, tables, memo, queried>>

NextSearch ==
    SearchDijkstra \/ SearchAStar \/ SearchMemoized \/ SearchMixed \/ SearchMultiModal

SpecSearch == InitSearch /\ [][NextSearch]_vars

(* The edges a search admits: those of the mode's road types; for the      *)
(* planner the car roads of at most 50 km; for the mixed search every edge *)
(* that has a mode.                                                        *)
AdmittedEdges(g, op, transport_mode) ==
    {i \in 1..Len(g.edges) :
        CASE op = "memoized_path_planning" ->
               /\ g.edges[i].road_type \in {"existing", "potential", "virtual_connection", "virtual_link"}
               /\ EdgeDistance(g.edges[i]) <= PlannerMaxDistance
          [] op = "find_mixed_mode_path" -> possible_modes(g.edges[i].road_type) # <<>>
          [] OTHER -> g.edges[i].road_type \in allowed_road_types(transport_mode)}

IsSearch(op) ==
    op \in {"dijkstra_with_traffic", "a_star_emergency_routing", "memoized_path_planning",
            "find_mixed_mode_path"}

NoAdmittedPath ==
    request.end \notin Closure(G, AdmittedEdges(G, request.op, request.transport_mode), {request.start})

(* C11: when no path of admitted edges joins start to end, each of the four      *)
(* searches returns an empty path, distance 0 and time 0, and its walk over      *)
(* previous ends.                                                                *)
C11_NoPathGivesEmptyResult ==
    (IsSearch(response.op) /\ NoAdmittedPath)
        => /\ response.path = <<>>
           /\ response.total_distance = 0
           /\ response.total_weight = 0
           /\ ~response.looped

(* A search left a start node that has an edge, by a mode that cannot reach the  *)
(* end, and returned the empty result.                                           *)
C11_Witness ==
    /\ IsSearch(response.op)
    /\ NoAdmittedPath
    /\ \E i \in 1..Len(G.edges) : Incident(G.edges[i], request.start)
    /\ request.end \in Closure(G, 1..Len(G.edges), {request.start})
    /\ response.path = <<>>

(* C14: multi_modal_path_planning returns, without raising, a dictionary that    *)
(* holds a path and a total weight for each of car, bus, metro and mixed.        *)
C14_ReturnsEveryMode ==
    response.op = "multi_modal_path_planning"
        => /\ response.status = "ok"
           /\ DOMAIN response.results = {"car", "bus", "metro", "mixed"}

(* C21: in find_mixed_mode_path the switch penalty of 5 minutes is added to a    *)
(* candidate's weight exactly when the mode recorded for the node being left is  *)
(* known and is not the candidate's mode; nothing is added on an edge that       *)
(* leaves the start node.                                                        *)
C21_PenaltyOnKnownSwitch ==
    response.op = "find_mixed_mode_path"
        => \A a \in 1..Len(response.result.relaxed) :
              LET c == response.result.relaxed[a]
              IN /\ c.added = (IF c.recorded # NoMode /\ c.recorded # c.mode
                               THEN ModeSwitchPenalty ELSE 0)
                 /\ c.node = request.start => c.added = 0

(* The search weighed a bus edge out of a node reached by car and added the      *)
(* penalty, and weighed an edge out of the start node.                           *)
C21_Witness ==
    /\ response.op = "find_mixed_mode_path"
    /\ \E a \in 1..Len(response.result.relaxed) :
          /\ response.result.relaxed[a].recorded = "car"
          /\ response.result.relaxed[a].mode = "bus"
          /\ response.result.relaxed[a].added = ModeSwitchPenalty
    /\ \E a \in 1..Len(response.result.relaxed) :
          response.result.relaxed[a].node = request.start


(* The edges of g are all at most 50 km long. *)
WithinPlannerDistance(g) == \A i \in 1..Len(g.edges) : EdgeDistance(g.edges[i]) <= PlannerMaxDistance

(* C23: on a graph whose edges are all at most 50 km long, a call of the planner *)
(* with an empty memo returns as total weight the total travel time that         *)
(* dijkstra_with_traffic returns in car mode for the same graph, traffic table,  *)
(* start, end and period.                                                        *)
C23_PlannerEqualsDijkstraCar ==
    (response.op = "memoized_path_planning" /\ WithinPlannerDistance(G))
        => response.total_weight
              = dijkstra_with_traffic(G, traffic_data, request.start, request.end,
                                      "morning", NoPeriod, "car").total_travel_time

-----------------------------------------------------------------------------
(* Specification of the calls that take the graph as an argument: the four *)
(* searches, simulate_emergency_delay on the paths of two searches, and    *)
(* the three tree builders, on a graph of at most MaxEdges edges (a road   *)
(* 1-2 of 1 km, a potential road 2-3 of 2 km that costs 2, a bus edge 1-3  *)
(* of 2 km) with the road tables behind it.  Each action gives G the value *)
(* the source graph has when the call returns.                             *)

FrameEdgeChoices ==
    {Edge(1, 2, "existing", 1000, 4, 0), Edge(2, 3, "potential", 2000, 4, 2),
     Edge(1, 3, "bus", 2000, 4, 0)}

InitFrame ==
    /\ \E edges \in SeqsUpTo(FrameEdgeChoices, MaxEdges),
          facilities \in {<<>>, [n \in {1} |-> "hospital"]} :
          /\ G = [edges |-> edges, pos |-> LinePositions]
          /\ tables = [kind |-> "frames", neighborhoods |-> [n \in {1, 2} |-> IF n = 1 THEN 2 ELSE 12],
                       facilities |-> facilities,
                       existing_roads |-> ExistingRows(edges), potential_roads |-> PotentialRows(edges)]
    /\ traffic_data \in {NoTraffic, OneWayTraffic}
    /\ memo = NoMemo
    /\ queried = {}
    /\ request = NoCall
    /\ response = NoCall
    /\ calls = 0

CallDelay ==
    /\ calls = 0
    /\ \E start \in Nodes, emergency_start \in Nodes :
          \E end \in Nodes \ {start}, emergency_end \in Nodes \ {emergency_start} :
             LET car_path == dijkstra_with_traffic(G, traffic_data, start, end, "morning",
                                                   NoPeriod, "car").path
                 emergency_path == a_star_emergency_routing(G, traffic_data, emergency_start,
                                                            emergency_end, "morning").path
                 r == simulate_emergency_delay(G, car_path, emergency_path)
             IN /\ request' = [op |-> "simulate_emergency_delay", car_path |-> car_path,
                               emergency_path |-> emergency_path]
                /\ response' = [op |-> "simulate_emergency_delay", path |-> r.path,
                                delay |-> r.delay]
    /\ calls' = calls + 1
    /\ UNCHANGED <<G, traffic_data, tables, memo, queried>>

NextFrame ==
    \/ SearchDijkstra \/ SearchAStar \/ SearchMemoized \/ SearchMixed \/ CallDelay
    \/ CallPopulationMst \/ CallBudgetMst \/ CallConnectivityMst

SpecFrame == InitFrame /\ [][NextFrame]_vars

(* C15: a search, simulate_emergency_delay or a tree builder leaves the source   *)
(* graph (its nodes, edges and their attributes) and the traffic table as they   *)
(* were before the call.                                                         *)
C15_SourceUnchanged == [][G' = G /\ traffic_data' = traffic_data]_vars

(* population_weighted_mst has returned a tree with an edge, whose               *)
(* modified_weight it stored, and the graph has no such attribute.               *)
C15_Witness ==
    /\ response.op = "population_weighted_mst"
    /\ response.result.stores # <<>>
    /\ \A i \in 1..Len(G.edges) : "modified_weight" \notin DOMAIN G.edges[i]

-----------------------------------------------------------------------------
(* Specification of simulate_emergency_delay on the paths of a car search  *)
(* and an emergency search.  Nodes 1 and 2 have the same coordinates.  No  *)
(* pair of nodes has two edges: 1-2 has none, a road of 1 km, or the       *)
(* virtual_connection of distance 0 that create_graph gives an isolated    *)
(* node at the coordinates of its nearest node; 2-3 has none, a road of    *)
(* 1 km or a bus edge of 2 km; 1-3 has none or a road of 1 km or 3 km.     *)

DelayEdgeChoices ==
    [{<<1, 2>>, <<2, 3>>, <<1, 3>>} ->
        {<<"none", 0>>, <<"existing", 1000>>, <<"existing", 3000>>, <<"bus", 2000>>,
         <<"virtual_connection", 0>>}]

DelayPositions == [n \in Nodes |-> IF n = 2 THEN <<1, 0>> ELSE <<n, 0>>]

InitDelay ==
    /\ \E c \in DelayEdgeChoices :
          /\ c[<<1, 2>>] \in {<<"none", 0>>, <<"existing", 1000>>, <<"virtual_connection", 0>>}
          /\ c[<<2, 3>>] \in {<<"none", 0>>, <<"existing", 1000>>, <<"bus", 2000>>}
          /\ c[<<1, 3>>] \in {<<"none", 0>>, <<"existing", 1000>>, <<"existing", 3000>>}
          /\ c[<<1, 2>>][1] = "virtual_connection"
                => c[<<2, 3>>][1] = "none" \/ c[<<1, 3>>][1] = "none"
          /\ G = [edges |-> [j \in 1..Len(SelectSeq(<<<<1, 2>>, <<2, 3>>, <<1, 3>>>>,
                                                     LAMBDA p : c[p][1] # "none")) |->
                                LET p == SelectSeq(<<<<1, 2>>, <<2, 3>>, <<1, 3>>>>,
                                                   LAMBDA x : c[x][1] # "none")[j]
                                IN Edge(p[1], p[2], c[p][1], c[p][2], 4, 0)],
                  pos |-> DelayPositions]
    /\ traffic_data \in {NoTraffic, OneWayTraffic}
    /\ tables = NoTables
    /\ memo = NoMemo
    /\ queried = {}
    /\ request = NoCall
    /\ response = NoCall
    /\ calls = 0

NextDelay == CallDelay

SpecDelay == InitDelay /\ [][NextDelay]_vars

(* C20: the delay is 0.2 times the sum of the distances of the edges that the    *)
(* car path shares with the emergency path, in either direction, when they share *)
(* an edge, and 0.03 times the distance of the car path when they share none.    *)
(* In the units of the model: 20 and 3 times the metres.                         *)
C20_DelayByShare ==
    response.op = "simulate_emergency_delay"
        => LET car == request.car_path
               em == request.emergency_path
               shared == {k \in 1..(Len(car) - 1) :
                             \E j \in 1..(Len(em) - 1) : {car[k], car[k + 1]} = {em[j], em[j + 1]}}
               dist(k) == G.edges[CHOOSE i \in 1..Len(G.edges) :
                                     {G.edges[i].u, G.edges[i].v} = {car[k], car[k + 1]}].distance
           IN IF shared # {}
              THEN response.delay
                      = 20 * SeqSum([k \in 1..(Len(car) - 1) |-> IF k \in shared THEN dist(k) ELSE 0])
              ELSE response.delay = 3 * SeqSum([k \in 1..(Len(car) - 1) |-> dist(k)])

-----------------------------------------------------------------------------
(* Graph construction.  data = [neighborhoods, facilities, existing_roads, *)
(* bus_routes, metro_lines, potential_roads], each a sequence of rows:     *)
(*   neighborhoods   [id, pos]                                             *)
(*   facilities      [id, pos], pos = <<>> when a coordinate is null       *)
(*   existing_roads  [from_id, to_id, distance], distance in metres        *)
(*   bus_routes and metro_lines: the sequence of stop ids of one route     *)
(*   potential_roads [from_id, to_id, distance, cost]                      *)
(* The graph built is [nodes, edges, pos]: nodes in the order they were    *)
(* added, pos[n] = <<>> for a node without the attribute.  Capacities are  *)
(* not read by what follows and are held as 4 where a record gives one.    *)

MaxRoadDistance == 100000
BusFallbackDistance == 1500
MetroFallbackDistance == 2000
VirtualLinkFallback == 1000

EmptyGraph == [nodes |-> <<>>, edges |-> <<>>, pos |-> [n \in Nodes |-> <<>>]]

InGraph(g, n) == \E j \in 1..Len(g.nodes) : g.nodes[j] = n

(* G.add_node(n, pos=...) and G.add_node(n): attributes given are set, others kept *)
add_node(g, n, pos) ==
    [g EXCEPT !.nodes = IF InGraph(g, n) THEN @ ELSE Append(@, n),
              !.pos[n] = IF pos = <<>> THEN @ ELSE pos]

(* G.add_edge(u, v, ...): the end points become nodes if they are not *)
add_edge(g, e) ==
    LET g1 == add_node(add_node(g, e.u, <<>>), e.v, <<>>)
    IN [g1 EXCEPT !.edges = Append(@, e)]

RECURSIVE add_place_rows(_, _)
add_place_rows(g, rows) ==
    IF rows = <<>> THEN g
    ELSE add_place_rows(add_node(g, Head(rows).id, Head(rows).pos), Tail(rows))

(* if distance_m > 100000: continue *)
road_rejected(distance_m) == distance_m > MaxRoadDistance

RECURSIVE add_road_rows(_, _, _)
add_road_rows(g, rows, road_type) ==
    IF rows = <<>> THEN g
    ELSE LET r == Head(rows)
             cost == IF road_type = "potential" THEN r.cost ELSE 0
         IN add_road_rows(IF road_rejected(r.distance) THEN g
                          ELSE add_edge(g, Edge(r.from_id, r.to_id, road_type, r.distance, 4, cost)),
                          Tail(rows), road_type)

(* The distance of the first existing-road row between the two stops, in   *)
(* either direction and whether or not the row became an edge; otherwise   *)
(* the mean of all rows; otherwise the fallback.                           *)
transit_distance(data, from_stop, to_stop, fallback) ==
    LET rows == data.existing_roads
        S == {j \in 1..Len(rows) : {rows[j].from_id, rows[j].to_id} = {from_stop, to_stop}}
    IN IF S # {} THEN rows[CHOOSE j \in S : \A l \in S : j <= l].distance
       ELSE IF rows # <<>> THEN SeqSum([j \in 1..Len(rows) |-> rows[j].distance]) \div Len(rows)
       ELSE fallback

RECURSIVE add_stops(_, _, _, _, _)
add_stops(g, data, stops, road_type, fallback) ==
    IF Len(stops) < 2 THEN g
    ELSE LET e == Edge(stops[1], stops[2], road_type,
                       transit_distance(data, stops[1], stops[2], fallback), 4, 0)
         IN add_stops(add_edge(g, e), data, Tail(stops), road_type, fallback)

RECURSIVE add_routes(_, _, _, _, _)
add_routes(g, data, routes, road_type, fallback) ==
    IF routes = <<>> THEN g
    ELSE add_routes(add_stops(g, data, Head(routes), road_type, fallback), data, Tail(routes),
                    road_type, fallback)

(* The graph after the record edges are added (lines 35-170). *)
record_graph(data) ==
    LET g1 == add_place_rows(add_place_rows(EmptyGraph, data.neighborhoods), data.facilities)
        g2 == add_road_rows(g1, data.existing_roads, "existing")
        g3 == add_routes(g2, data, data.bus_routes, "bus", BusFallbackDistance)
        g4 == add_routes(g3, data, data.metro_lines, "metro", MetroFallbackDistance)
    IN add_road_rows(g4, data.potential_roads, "potential")

(* all_coords: a dict, held as the sequence of its items [id, pos] in     *)
(* insertion order; a later row of the same id replaces the value.        *)
RECURSIVE coords_of(_, _)
coords_of(acc, rows) ==
    IF rows = <<>> THEN acc
    ELSE LET r == Head(rows)
             S == {j \in 1..Len(acc) : acc[j].id = r.id}
         IN coords_of(IF r.pos = <<>> THEN acc
                      ELSE IF S = {} THEN Append(acc, [id |-> r.id, pos |-> r.pos])
                      ELSE [j \in 1..Len(acc) |-> IF j \in S THEN [id |-> r.id, pos |-> r.pos] ELSE acc[j]],
                      Tail(rows))

all_coords(data) == coords_of(coords_of(<<>>, data.neighborhoods), data.facilities)

(* distance_calc in metres: lon_factor 1110 m and lat_factor 1110*cos(30) m *)
(* per hundredth of a degree.                                               *)
distance_calc(p, q) ==
    555 * ISqrt(4 * (q[1] - p[1]) * (q[1] - p[1]) + 3 * (q[2] - p[2]) * (q[2] - p[2]))

(* nx.shortest_path and nx.path_weight with weight="distance": the least    *)
(* summed distance from a to b, INF when there is no path.                  *)
RECURSIVE path_distances(_, _, _)
path_distances(g, d, rounds) ==
    IF rounds = 0 THEN d
    ELSE LET via(n) == {d[Other(g.edges[i], n)] + g.edges[i].distance :
                           i \in {j \in 1..Len(g.edges) : Incident(g.edges[j], n)
                                                          /\ d[Other(g.edges[j], n)] # INF}}
             least(S) == CHOOSE x \in S : \A y \in S : x <= y
         IN path_distances(g, [n \in Nodes |-> least({d[n]} \cup via(n))], rounds - 1)

shortest_distance(g, a, b) ==
    path_distances(g, [n \in Nodes |-> IF n = a THEN 0 ELSE INF], NumNodes)[b]

(* the node is left without a position when it has no sourced coordinates *)
place_node_if_sourced(g, coords, node) ==
    LET S == {j \in 1..Len(coords) : coords[j].id = node}
    IN IF S # {} THEN [g EXCEPT !.pos[node] = coords[CHOOSE j \in S : TRUE].pos] ELSE g

(* One iteration of the loop of lines 185-214 for a node without 'pos'.     *)
(* Every candidate is measured against itself (distance 0), so "nearest" is *)
(* the first item of all_coords that is another node.                       *)
place_node(g, coords, node) ==
    LET S == {j \in 1..Len(coords) : coords[j].id = node}
        others == {j \in 1..Len(coords) : coords[j].id # node}
    IN IF S # {} THEN [g EXCEPT !.pos[node] = coords[CHOOSE j \in S : TRUE].pos]
       ELSE IF others # {}
       THEN LET nearest == coords[CHOOSE j \in others : \A l \in others : j <= l]
                found == shortest_distance(g, node, nearest.id)
                calculated_distance == IF found = INF THEN VirtualLinkFallback ELSE found
                g1 == [g EXCEPT !.pos[node] = <<nearest.pos[1] + 1, nearest.pos[2] + 1>>]
            IN add_edge(g1, Edge(node, nearest.id, "virtual_link", calculated_distance, NoAttr, 0))
       ELSE [g EXCEPT !.pos[node] = <<0, 0>>]

RECURSIVE place_nodes(_, _, _)
place_nodes(g, coords, nodes) ==
    IF nodes = <<>> THEN g
    ELSE place_nodes(IF g.pos[Head(nodes)] = <<>> THEN place_node(g, coords, Head(nodes)) ELSE g,
                     coords, Tail(nodes))

(* no node is taken to be isolated *)
isolated_nodes_none(g) == <<>>

(* list(nx.isolates(G)): the nodes of degree 0, in node order *)
isolated_nodes(g) ==
    SelectSeq(g.nodes, LAMBDA n : ~\E i \in 1..Len(g.edges) : Incident(g.edges[i], n))

(* One iteration of the loop of lines 218-239. *)
connect_isolated(g, coords, node) ==
    LET others == {j \in 1..Len(coords) : coords[j].id # node}
        d(j) == distance_calc(g.pos[node], coords[j].pos)
    IN IF others = {} THEN g
       ELSE LET k == CHOOSE j \in others : /\ \A l \in others : d(j) <= d(l)
                                           /\ \A l \in others : l < j => d(l) > d(j)
                nearest_node == coords[k].id
                found == shortest_distance(g, node, nearest_node)
                calculated_distance == IF found = INF THEN d(k) ELSE found
            IN add_edge(g, Edge(node, nearest_node, "virtual_connection", calculated_distance, NoAttr, 0))

RECURSIVE connect_all(_, _, _)
connect_all(g, coords, nodes) ==
    IF nodes = <<>> THEN g
    ELSE connect_all(connect_isolated(g, coords, Head(nodes)), coords, Tail(nodes))

create_graph(data) ==
    LET g1 == record_graph(data)
        g2 == place_nodes(g1, all_coords(data), g1.nodes)
    IN connect_all(g2, all_coords(data), isolated_nodes(g2))

-----------------------------------------------------------------------------
(* Specification of graph construction: create_graph is called once on     *)
(* data of up to two neighborhoods (at the same or at different            *)
(* coordinates), one facility with or without coordinates, at most MaxRows *)
(* existing roads of 6 km or 120 km, bus routes over two or three stops, a *)
(* metro line and a potential road.  Coordinates lie on one latitude, so   *)
(* distance_calc is exact; distances are multiples of 6 km, so the mean of *)
(* up to three of them is exact.                                           *)

MaxRows == 2

Place(id, pos) == [id |-> id, pos |-> pos]

NeighborhoodChoices ==
    {<<>>, <<Place(1, <<0, 0>>)>>, <<Place(1, <<0, 0>>), Place(2, <<3, 0>>)>>,
     <<Place(1, <<0, 0>>), Place(2, <<0, 0>>)>>}

FacilityChoices == {<<>>, <<Place(3, <<>>)>>, <<Place(3, <<6, 0>>)>>}

RoadRowChoices ==
    {[from_id |-> p[1], to_id |-> p[2], distance |-> d] :
        p \in {<<1, 2>>, <<2, 3>>}, d \in {6000, 120000}}

BusRouteChoices == {<<>>, <<<<1, 2>>>>, <<<<1, 2, 3>>>>}
MetroLineChoices == {<<>>, <<<<2, 3>>>>}
PotentialRoadChoices == {<<>>, <<[from_id |-> 1, to_id |-> 3, distance |-> 6000, cost |-> 2]>>}

InitBuild ==
    /\ \E neighborhoods \in NeighborhoodChoices, facilities \in FacilityChoices,
          existing_roads \in SeqsUpTo(RoadRowChoices, MaxRows), bus_routes \in BusRouteChoices,
          metro_lines \in MetroLineChoices, potential_roads \in PotentialRoadChoices :
          tables = [kind |-> "data", neighborhoods |-> neighborhoods, facilities |-> facilities,
                    existing_roads |-> existing_roads, bus_routes |-> bus_routes,
                    metro_lines |-> metro_lines, potential_roads |-> potential_roads]
    /\ G = EmptyGraph
    /\ traffic_data = NoTraffic
    /\ memo = NoMemo
    /\ queried = {}
    /\ request = NoCall
    /\ response = NoCall
    /\ calls = 0

CreateGraph ==
    /\ calls = 0
    /\ G' = create_graph(tables)
    /\ request' = [op |-> "create_graph"]
    /\ response' = [op |-> "create_graph"]
    /\ calls' = calls + 1
    /\ UNCHANGED <<traffic_data, tables, memo, queried>>

NextBuild == CreateGraph

SpecBuild == InitBuild /\ [][NextBuild]_vars

(* C12: after create_graph every edge has a distance above 0 and of at most      *)
(* 100,000 m.                                                                    *)
C12_EdgeDistancesInRange ==
    response.op = "create_graph"
        => \A i \in 1..Len(G.edges) :
              G.edges[i].distance > 0 /\ G.edges[i].distance <= MaxRoadDistance

(* C13: after create_graph every node of the graph has a position.               *)
C13_EveryNodeHasPos ==
    response.op = "create_graph"
        => \A j \in 1..Len(G.nodes) : G.pos[G.nodes[j]] # <<>>

(* The graph built holds a node that no neighborhood or facility row names and a *)
(* facility whose row has no coordinates.                                        *)
C13_Witness ==
    /\ response.op = "create_graph"
    /\ \E j \in 1..Len(G.nodes) :
          /\ \A a \in 1..Len(tables.neighborhoods) : tables.neighborhoods[a].id # G.nodes[j]
          /\ \A a \in 1..Len(tables.facilities) : tables.facilities[a].id # G.nodes[j]
          /\ G.pos[G.nodes[j]] # <<>>
    /\ \E a \in 1..Len(tables.facilities) :
          tables.facilities[a].pos = <<>> /\ G.pos[tables.facilities[a].id] # <<>>

-----------------------------------------------------------------------------
(* Specification of the two budget-limited builders on the graph that      *)
(* create_graph makes of the road tables: no existing road or one of 1 km, *)
(* at most MaxRows potential roads between 1-2 and 2-3 (2 km at a cost of  *)
(* 2 or 5, or 120 km at a cost of 1, which create_graph rejects), and no   *)
(* important facility, a hospital at 1, or a hospital at 1 and a school    *)
(* at 2.                                                                   *)

BudgetExistingChoices ==
    {<<>>, <<[from_id |-> 1, to_id |-> 2, distance |-> 1000]>>,
     <<[from_id |-> 1, to_id |-> 3, distance |-> 1000]>>}

BudgetPotentialChoices ==
    {[from_id |-> p[1], to_id |-> p[2], distance |-> t[1], cost |-> t[2]] :
        p \in {<<1, 2>>, <<2, 3>>}, t \in {<<2000, 2>>, <<2000, 5>>, <<120000, 1>>}}

BudgetFacilityTables ==
    {<<>>, [n \in {1} |-> "hospital"], [n \in {1, 2} |-> IF n = 1 THEN "hospital" ELSE "school"]}

(* The edges create_graph adds for the rows of a road table. *)
RoadEdges(rows, road_type) ==
    LET kept == SelectSeq(rows, LAMBDA r : ~road_rejected(r.distance))
    IN [j \in 1..Len(kept) |->
           Edge(kept[j].from_id, kept[j].to_id, road_type, kept[j].distance, 4,
                IF road_type = "potential" THEN kept[j].cost ELSE 0)]

InitBudget ==
    /\ \E existing \in BudgetExistingChoices,
          potential \in SeqsUpTo(BudgetPotentialChoices, MaxRows),
          facilities \in BudgetFacilityTables :
          /\ G = [edges |-> RoadEdges(existing, "existing") \o RoadEdges(potential, "potential"),
                  pos |-> LinePositions]
          /\ tables = [kind |-> "frames", neighborhoods |-> <<>>, facilities |-> facilities,
                       existing_roads |-> existing, potential_roads |-> potential]
    /\ traffic_data = NoTraffic
    /\ memo = NoMemo
    /\ queried = {}
    /\ request = NoCall
    /\ response = NoCall
    /\ calls = 0

NextBudget == CallBudgetMst \/ CallConnectivityMst

SpecBudget == InitBudget /\ [][NextBudget]_vars

(* C17: budget_constrained_mst takes the potential roads in ascending cost and   *)
(* accepts a road only if the edges selected before it do not connect its ends   *)
(* and its cost is at most the budget that remains; the remaining budget is      *)
(* never negative, and the total cost returned is the sum of the costs of the    *)
(* accepted roads, the roads appended to mst_edges, and at most the budget.      *)
C17_AcceptedWithinBudget ==
    (response.op = "budget_constrained_mst" /\ response.result.status = "ok")
        => LET r == response.result
               d == r.decided
               budget == request.budget
               paid(a) == IF d[a].i # 0 THEN G.edges[d[a].i].cost ELSE 0
               spent(a) == SeqSum([b \in 1..(a - 1) |-> paid(b)])
               taken(a) == Cardinality({b \in 1..(a - 1) : d[b].i # 0})
               existing == Len(r.mst_edges) - taken(Len(d) + 1)
               selected(a) == {{r.mst_edges[j].u, r.mst_edges[j].v} : j \in 1..(existing + taken(a))}
           IN /\ \A a \in 1..Len(d) : \A b \in a..Len(d) : d[a].row.cost <= d[b].row.cost
              /\ \A a \in 1..Len(d) :
                    d[a].i # 0 => /\ ~has_path(selected(a), d[a].row.from_id, d[a].row.to_id)
                                  /\ paid(a) <= budget - spent(a)
              /\ \A a \in 1..(Len(d) + 1) : budget - spent(a) >= 0
              /\ r.total_cost = spent(Len(d) + 1)
              /\ r.total_cost <= budget

(* C18: connectivity_based_mst decides the potential roads in non-decreasing     *)
(* order of (level, cost), level 0 for a road between two important facilities,  *)
(* 1 for a road with one important end, 2 otherwise: every road is decided, and  *)
(* none before a road with a strictly smaller key.                               *)
C18_DecidedInKeyOrder ==
    (response.op = "connectivity_based_mst" /\ response.result.status = "ok")
        => LET d == response.result.decided
               important(n) == /\ n \in DOMAIN tables.facilities
                               /\ tables.facilities[n] \in {"hospital", "school", "government",
                                                             "police", "fire"}
               level(row) == IF important(row.from_id) /\ important(row.to_id) THEN 0
                             ELSE IF important(row.from_id) \/ important(row.to_id) THEN 1
                             ELSE 2
               smaller(x, y) == level(x) < level(y) \/ (level(x) = level(y) /\ x.cost < y.cost)
           IN /\ Len(d) = Len(tables.potential_roads)
              /\ \A row \in {tables.potential_roads[a] : a \in 1..Len(tables.potential_roads)} :
                    Cardinality({a \in 1..Len(d) : d[a].row = row})
                        = Cardinality({a \in 1..Len(d) : tables.potential_roads[a] = row})
              /\ \A a \in 1..Len(d) : \A b \in a..Len(d) : ~smaller(d[b].row, d[a].row)

(* Two roads were decided in the reverse of their order by cost: the dearer one  *)
(* first, for its level is lower, and it was accepted.                           *)
C18_Witness ==
    /\ response.op = "connectivity_based_mst"
    /\ response.result.status = "ok"
    /\ Len(response.result.decided) = 2
    /\ response.result.decided[1].row.cost > response.result.decided[2].row.cost
    /\ response.result.decided[1].i # 0

-----------------------------------------------------------------------------
(* Public transport schedule.  A metro row is [id, daily_passengers], a    *)
(* bus row [id, daily_passengers, buses_assigned].  The demand of a period *)
(* is daily_passengers times the weight of the period (0.35, 0.25, 0.30,   *)
(* 0.10); period_demand is 20 times it.  A service quality is a fraction   *)
(* <<num, den>>, den > 0, of 1/1200 passengers per minute.  A schedule     *)
(* holds, for a line and a period, the set of the counts the function can  *)
(* return.                                                                 *)

MaxTrains == 20
MaxBuses == 30
TrainCapacity == 1000
BusCapacity == 80

time_periods == <<"morning", "afternoon", "evening", "night">>

time_weights == [period \in {"morning", "afternoon", "evening", "night"} |->
                    CASE period = "morning" -> 7 [] period = "afternoon" -> 5
                      [] period = "evening" -> 6 [] period = "night" -> 2]

period_demand(daily_passengers, period) == daily_passengers * time_weights[period]

(* demand / waiting_time when the capacity covers the demand, else         *)
(* capacity / waiting_time - (demand - capacity) * 0.5; waiting_time is    *)
(* 60 / vehicles.                                                          *)
service_quality(demand, base_capacity, vehicles) ==
    IF 20 * base_capacity * vehicles >= demand
    THEN demand * vehicles
    ELSE 20 * base_capacity * vehicles * vehicles - 30 * demand + 600 * base_capacity * vehicles

metro_quality(demand, trains) == <<service_quality(demand, TrainCapacity, trains), 1>>

(* service_quality / cost_factor, cost_factor = buses / current_buses when *)
(* buses > current_buses, else 1.                                          *)
bus_quality(demand, current_buses, buses) ==
    IF buses > current_buses
    THEN <<service_quality(demand, BusCapacity, buses) * current_buses, buses>>
    ELSE <<service_quality(demand, BusCapacity, buses), 1>>

QualityLess(p, q) == p[1] * q[2] < q[1] * p[2]

(* max(range(1, n + 1), key=lambda t: dp[t]).  The qualities are floats, and  *)
(* candidates of equal quality (every count above the assigned buses that    *)
(* covers the demand has quality demand * current_buses / 60) differ in the  *)
(* last bits by the rounding of the divisions: max returns one of the counts *)
(* of greatest quality, and which one depends on the rounding.  The set of   *)
(* the counts it can return.                                                 *)
optimal_counts(dp) == {t \in DOMAIN dp : \A o \in DOMAIN dp : ~QualityLess(dp[t], dp[o])}

metro_line_schedule(row) ==
    [period \in DOMAIN time_weights |->
        optimal_counts([trains \in 1..MaxTrains |->
                          metro_quality(period_demand(row.daily_passengers, period), trains)])]

bus_route_schedule(row) ==
    [period \in DOMAIN time_weights |->
        optimal_counts([buses \in 1..MaxBuses |->
                          bus_quality(period_demand(row.daily_passengers, period),
                                      row.buses_assigned, buses)])]

(* buses / current_buses divides by zero for the first candidate of a route *)
(* with no bus assigned.                                                    *)
bus_division_by_zero(row) == \E buses \in 1..MaxBuses : buses > row.buses_assigned /\ row.buses_assigned = 0

(* The dictionary built from the rows: a later row of the same id replaces an earlier one. *)
RowsById(rows) ==
    [id \in {rows[a].id : a \in 1..Len(rows)} |->
        rows[CHOOSE a \in 1..Len(rows) : rows[a].id = id /\ \A b \in (a + 1)..Len(rows) : rows[b].id # id]]

optimize_public_transport_schedule(metro_lines_df, bus_routes_df) ==
    LET metro_lines == RowsById(metro_lines_df)
        bus_routes == RowsById(bus_routes_df)
    IN IF \E id \in DOMAIN bus_routes : bus_division_by_zero(bus_routes[id])
       THEN [status |-> "ZeroDivisionError", metro |-> <<>>, bus |-> <<>>]
       ELSE [status |-> "ok",
             metro |-> [id \in DOMAIN metro_lines |-> metro_line_schedule(metro_lines[id])],
             bus |-> [id \in DOMAIN bus_routes |-> bus_route_schedule(bus_routes[id])]]

-----------------------------------------------------------------------------
(* Specification of the schedule: at most MaxLines metro lines and at most *)
(* MaxLines bus routes, row a with id a, a line with 0, 2,000 or 6,000     *)
(* daily passengers, a route with 0, 5 or 20 buses assigned.               *)

MaxLines == 2

DailyPassengerChoices == {0, 2000, 6000}
BusesAssignedChoices == {0, 5, 20}

MetroTables ==
    UNION {[1..k -> DailyPassengerChoices] : k \in 0..MaxLines}

BusTables ==
    UNION {[1..k -> DailyPassengerChoices \X BusesAssignedChoices] : k \in 0..MaxLines}

InitSchedule ==
    /\ \E metro \in MetroTables, bus \in BusTables :
          tables = [kind |-> "schedule",
                    metro_lines |-> [a \in DOMAIN metro |-> [id |-> a, daily_passengers |-> metro[a]]],
                    bus_routes |-> [a \in DOMAIN bus |->
                                       [id |-> a, daily_passengers |-> bus[a][1],
                                        buses_assigned |-> bus[a][2]]]]
    /\ G = NoGraph
    /\ traffic_data = NoTraffic
    /\ memo = NoMemo
    /\ queried = {}
    /\ request = NoCall
    /\ response = NoCall
    /\ calls = 0

CallSchedule ==
    /\ calls = 0
    /\ request' = [op |-> "optimize_public_transport_schedule"]
    /\ response' = [op |-> "optimize_public_transport_schedule",
                    result |-> optimize_public_transport_schedule(tables.metro_lines,
                                                                  tables.bus_routes)]
    /\ calls' = calls + 1
    /\ UNCHANGED <<G, traffic_data, tables, memo, queried>>

NextSchedule == CallSchedule

SpecSchedule == InitSchedule /\ [][NextSchedule]_vars

(* C22: for every metro line and bus route of the tables and every period the    *)
(* schedule holds a count, each count it can hold is in 1..20 (metro) or 1..30   *)
(* (bus) and no candidate beats it in service quality, and the counts of a line  *)
(* are those of a schedule made for that line alone.                             *)
C22_BestCountPerLine ==
    response.op = "optimize_public_transport_schedule"
        => LET r == response.result
           IN /\ r.status = "ok"
              /\ \A a \in 1..Len(tables.metro_lines) : \A period \in DOMAIN time_weights :
                    LET row == tables.metro_lines[a]
                        q(t) == metro_quality(period_demand(row.daily_passengers, period), t)
                    IN /\ r.metro[row.id][period] # {}
                       /\ r.metro[row.id][period] \subseteq 1..MaxTrains
                       /\ \A c \in r.metro[row.id][period] :
                             \A t \in 1..MaxTrains : ~QualityLess(q(c), q(t))
                       /\ r.metro[row.id]
                             = optimize_public_transport_schedule(<<row>>, <<>>).metro[row.id]
              /\ \A a \in 1..Len(tables.bus_routes) : \A period \in DOMAIN time_weights :
                    LET row == tables.bus_routes[a]
                        q(b) == bus_quality(period_demand(row.daily_passengers, period),
                                            row.buses_assigned, b)
                    IN /\ r.bus[row.id][period] # {}
                       /\ r.bus[row.id][period] \subseteq 1..MaxBuses
                       /\ \A c \in r.bus[row.id][period] :
                             \A b \in 1..MaxBuses : ~QualityLess(q(c), q(b))
                       /\ r.bus[row.id]
                             = optimize_public_transport_schedule(<<>>, <<row>>).bus[row.id]


-----------------------------------------------------------------------------
(* Specification of the walks of the four searches: one query, start # end, *)
(* over a graph of at most MaxEdges edges: between nodes 1, 2 and 2, 3 a    *)
(* road of 0 m, a road of 1000 m or a bus link of 2000 m, between 1 and 3 a *)
(* road of 1000 m; with or without the one-way traffic table.               *)

WalkEdgeChoices ==
    {Edge(p[1], p[2], t[1], t[2], 4, 0) :
        p \in {<<1, 2>>, <<2, 3>>},
        t \in {<<"existing", 0>>, <<"existing", 1000>>, <<"bus", 2000>>}}
    \cup {Edge(1, 3, "existing", 1000, 4, 0)}

InitWalk ==
    /\ \E edges \in SeqsUpTo(WalkEdgeChoices, MaxEdges) : G = [edges |-> edges, pos |-> LinePositions]
    /\ traffic_data \in {NoTraffic, OneWayTraffic}
    /\ tables = NoTables
    /\ memo = NoMemo
    /\ queried = {}
    /\ request = NoCall
    /\ response = NoCall
    /\ calls = 0

NextWalk == SearchDijkstra \/ SearchAStar \/ SearchMemoized \/ SearchMixed

SpecWalk == InitWalk /\ [][NextWalk]_vars

(* C24: a non-empty path returned by one of the four searches for start # end    *)
(* begins with start, ends with end, holds no node twice, and each node after    *)
(* the first has the node before it as previous and is joined to it by the edge  *)
(* whose key edge_keys holds; the walk over previous ends before it has made     *)
(* more steps than there are nodes.                                              *)
C24_PathWellFormed ==
    (IsSearch(response.op) /\ response.path # <<>>)
        => LET path == response.path
               r == response.result
           IN /\ ~response.looped
              /\ path[1] = request.start
              /\ path[Len(path)] = request.end
              /\ \A a \in 1..Len(path) : \A b \in 1..Len(path) : a # b => path[a] # path[b]
              /\ \A k \in 1..(Len(path) - 1) :
                    /\ r.previous[path[k + 1]] = path[k]
                    /\ EdgeAt(G, path[k + 1], path[k], r.edge_keys[path[k + 1]][path[k]]) # 0

(* A search returned a path over three nodes whose first edge has distance 0. *)
C24_Witness ==
    /\ IsSearch(response.op)
    /\ Len(response.path) = 3
    /\ LET r == response.result
       IN EdgeDistance(G.edges[EdgeAt(G, response.path[2], response.path[1],
                                      r.edge_keys[response.path[2]][response.path[1]])]) = 0


(* The least sum of directed edge weights over the walks of at most rounds  *)
(* edges from start to each node, over the edges the mode may use.          *)
RECURSIVE ShortestTimes(_, _, _, _, _, _)
ShortestTimes(g, td, time_period, transport_mode, start, rounds) ==
    IF rounds = 0 THEN [n \in Nodes |-> IF n = start THEN 0 ELSE INF]
    ELSE LET d == ShortestTimes(g, td, time_period, transport_mode, start, rounds - 1)
             via(n) == {d[Other(g.edges[i], n)]
                           + get_edge_weight(td, g.edges[i], Other(g.edges[i], n), n, time_period,
                                             NoPeriod, EdgeDistance(g.edges[i]), transport_mode) :
                        i \in {j \in AdmittedEdges(g, "dijkstra_with_traffic", transport_mode) :
                                  Incident(g.edges[j], n) /\ d[Other(g.edges[j], n)] < INF}}
         IN [n \in Nodes |-> LET S == via(n) \cup {d[n]}
                             IN CHOOSE x \in S : \A y \in S : x <= y]

(* C25: when dijkstra_with_traffic has stopped and walks over edges the mode may *)
(* use lead from start to end, the distance label of end is the least sum of     *)
(* directed edge weights over those walks, and the edges of the returned path,   *)
(* weighed in the direction of travel, sum to it.                                *)
C25_LabelIsShortest ==
    (response.op = "dijkstra_with_traffic" /\ ~NoAdmittedPath)
        => LET r == response.result
               best == ShortestTimes(G, traffic_data, "morning", request.transport_mode,
                                     request.start, NumNodes)[request.end]
           IN /\ r.distances[request.end] = best
              /\ r.path # <<>>
              /\ ForwardTime(G, traffic_data, r, "morning", request.transport_mode) = best

(* A car query between two nodes joined by two edges of different weight, the    *)
(* second the faster one, returned the path over the second.                     *)
C25_Witness ==
    /\ response.op = "dijkstra_with_traffic"
    /\ request.transport_mode = "car"
    /\ Len(G.edges) = 2
    /\ SamePair(G.edges[1], G.edges[2])
    /\ G.edges[1].road_type = "bus"
    /\ G.edges[2].distance = 1000
    /\ Len(response.path) = 2
    /\ response.result.edge_keys[request.end][request.start] = 1


(* C26: the total weight find_mixed_mode_path returns with a path is the cost    *)
(* label of the destination: the weights of the path's edges plus the switch     *)
(* penalty for every change of mode along it.                                    *)
C26_TotalIsLabel ==
    (response.op = "find_mixed_mode_path" /\ response.path # <<>>)
        => response.total_weight = response.result.distances[request.end]


EdgelessRows(g, t) ==
    {row \in {[from_id |-> t.existing_roads[a].from_id, to_id |-> t.existing_roads[a].to_id] :
                 a \in 1..Len(t.existing_roads)}
              \cup {[from_id |-> t.potential_roads[a].from_id, to_id |-> t.potential_roads[a].to_id] :
                       a \in 1..Len(t.potential_roads)} :
        row.from_id \in Nodes /\ row.to_id \in Nodes /\ ~HasEdge(g, row.from_id, row.to_id)}

(* C28: budget_constrained_mst and connectivity_based_mst return a result when a *)
(* row of existing_roads or potential_roads names two nodes of the graph with no *)
(* edge between them, and no edge of the result joins the ends of such a row.    *)
C28_EdgelessRowSkipped ==
    (response.op \in {"budget_constrained_mst", "connectivity_based_mst"}
        /\ EdgelessRows(G, tables) # {})
        => /\ response.result.status = "ok"
           /\ \A j \in 1..Len(response.result.mst_edges) :
                 [from_id |-> response.result.mst_edges[j].u,
                  to_id |-> response.result.mst_edges[j].v] \notin EdgelessRows(G, tables)


-----------------------------------------------------------------------------
(* Specification of the main loops of the three searches, one iteration of  *)
(* "while pq" per step.  A call starts with the state the function sets up  *)
(* before its loop; response holds the loop state st of the running call,   *)
(* and st.done is set by the iteration that leaves the loop.  memo holds    *)
(* the state that the next iteration leaves, worked out when st is set, so  *)
(* that the progress of the loop is a condition on st alone.  Graphs are    *)
(* those of at most MaxEdges edges between nodes 1, 2 and 2, 3, each a road *)
(* of 0 m, a road of 1000 m or a bus link of 2000 m.                        *)

LoopEdgeChoices ==
    {Edge(p[1], p[2], t[1], t[2], 4, 0) :
        p \in {<<1, 2>>, <<2, 3>>},
        t \in {<<"existing", 0>>, <<"existing", 1000>>, <<"bus", 2000>>}}

InitLoop ==
    /\ \E edges \in SeqsUpTo(LoopEdgeChoices, MaxEdges) : G = [edges |-> edges, pos |-> LinePositions]
    /\ traffic_data = NoTraffic
    /\ tables = NoTables
    /\ memo = NoMemo
    /\ queried = {}
    /\ request = NoCall
    /\ response = NoCall
    /\ calls = 0

Running(op) == calls = 1 /\ response.op = op /\ ~response.st.done

StartDijkstra ==
    /\ calls = 0
    /\ \E start \in Nodes, end \in Nodes, transport_mode \in {"car", "bus"} :
          /\ request' = [op |-> "dijkstra_with_traffic", start |-> start, end |-> end,
                         time_period |-> "morning", emergency_time_period |-> NoPeriod,
                         transport_mode |-> transport_mode]
          /\ response' = [op |-> "dijkstra_with_traffic", st |-> dijkstra_init(start)]
          /\ memo' = dijkstra_step(G, traffic_data, request', dijkstra_init(start))
    /\ calls' = 1
    /\ UNCHANGED <<G, traffic_data, tables, queried>>

IterateDijkstra ==
    /\ Running("dijkstra_with_traffic")
    /\ response' = [response EXCEPT !.st = memo]
    /\ memo' = IF memo.done THEN memo ELSE dijkstra_step(G, traffic_data, request, memo)
    /\ UNCHANGED <<G, traffic_data, tables, queried, request, calls>>

StartAStar ==
    /\ calls = 0
    /\ \E start \in Nodes, end \in Nodes :
          /\ request' = [op |-> "a_star_emergency_routing", start |-> start, end |-> end,
                         time_period |-> NoPeriod, emergency_time_period |-> "morning",
                         transport_mode |-> "emergency"]
          /\ response' = [op |-> "a_star_emergency_routing", st |-> a_star_init(G, start, end)]
          /\ memo' = a_star_step(G, traffic_data, end, "morning", a_star_init(G, start, end))
    /\ calls' = 1
    /\ UNCHANGED <<G, traffic_data, tables, queried>>

IterateAStar ==
    /\ Running("a_star_emergency_routing")
    /\ response' = [response EXCEPT !.st = memo]
    /\ memo' = IF memo.done THEN memo
               ELSE a_star_step(G, traffic_data, request.end, request.emergency_time_period, memo)
    /\ UNCHANGED <<G, traffic_data, tables, queried, request, calls>>

StartMixed ==
    /\ calls = 0
    /\ \E start \in Nodes, end \in Nodes :
          /\ request' = [op |-> "find_mixed_mode_path", start |-> start, end |-> end,
                         time_period |-> "morning", emergency_time_period |-> NoPeriod,
                         transport_mode |-> "mixed"]
          /\ response' = [op |-> "find_mixed_mode_path", st |-> mixed_init(start)]
          /\ memo' = mixed_step(G, traffic_data, end, "morning", mixed_init(start))
    /\ calls' = 1
    /\ UNCHANGED <<G, traffic_data, tables, queried>>

IterateMixed ==
    /\ Running("find_mixed_mode_path")
    /\ response' = [response EXCEPT !.st = memo]
    /\ memo' = IF memo.done THEN memo
               ELSE mixed_step(G, traffic_data, request.end, request.time_period, memo)
    /\ UNCHANGED <<G, traffic_data, tables, queried, request, calls>>

Iterate == IterateDijkstra \/ IterateAStar \/ IterateMixed

NextLoop == StartDijkstra \/ StartAStar \/ StartMixed \/ Iterate

SpecLoop == InitLoop /\ [][NextLoop]_vars

(* The move of st that an iteration makes. *)
Advance == calls = 1 /\ ~response.st.done /\ response' = [response EXCEPT !.st = memo]

(* A running loop goes on with its next iteration: the program is sequential *)
(* and nothing else is scheduled.                                            *)
SpecLoopFair == SpecLoop /\ WF_response(Advance)

(* C29: the main loop of a call of dijkstra_with_traffic,                        *)
(* a_star_emergency_routing or find_mixed_mode_path that has started is left     *)
(* after finitely many iterations.                                               *)
C29_LoopsTerminate == (calls = 1) ~> (calls = 1 /\ response.st.done)

(* The A* loop was left on popping end while the queue still holds an entry      *)
(* whose score is above the score its node has by now.                           *)
C29_Witness ==
    /\ calls = 1
    /\ response.op = "a_star_emergency_routing"
    /\ response.st.done
    /\ response.st.g_scores[request.end] < INF
    /\ request.start # request.end
    /\ \E t \in response.st.queue : t[2] > response.st.g_scores[t[3]]


-----------------------------------------------------------------------------
(* Specification of A* on a graph without positions: at most MaxAStarEdges  *)
(* roads of 1000 m or 7000 m between nodes 1, 2 and 3, no node with a 'pos' *)
(* attribute, with or without the one-way traffic table; one A* query.      *)

NoPositions == [n \in Nodes |-> <<>>]

InitPlain ==
    /\ \E edges \in SeqsUpTo(AStarEdgeChoices, MaxAStarEdges) : G = [edges |-> edges, pos |-> NoPositions]
    /\ traffic_data \in {NoTraffic, OneWayTraffic}
    /\ tables = NoTables
    /\ memo = NoMemo
    /\ queried = {}
    /\ request = NoCall
    /\ response = NoCall
    /\ calls = 0

NextPlain == SearchAStar

SpecPlain == InitPlain /\ [][NextPlain]_vars

(* C30: on a graph where no node has a position, a_star_emergency_routing        *)
(* returns the total travel time that dijkstra_with_traffic returns in emergency *)
(* mode for the same graph, traffic table, start, end and period.                *)
C30_AStarEqualsDijkstra ==
    (response.op = "a_star_emergency_routing" /\ \A n \in Nodes : ~HasPos(G, n))
        => response.total_weight
              = dijkstra_with_traffic(G, traffic_data, request.start, request.end,
                                      "morning", NoPeriod, "emergency").total_travel_time

(* A* returned the two-edge path from 1 to 3 on a graph that also has a slower   *)
(* direct road between them.                                                     *)
C30_Witness ==
    /\ response.op = "a_star_emergency_routing"
    /\ \A n \in Nodes : ~HasPos(G, n)
    /\ response.path = <<1, 2, 3>>
    /\ HasEdge(G, 1, 3)

====
